---- MODULE Spec2Model ----
(***************************************************************************)
(* State-machine model of CloudESSManager (src/APP/Grid_Dut_Mng.py): one   *)
(* session with an energy-storage station over MQTT.                       *)
(*                                                                         *)
(* Conventions                                                             *)
(*   - a Python value that may be None (dict.get without a default, an     *)
(*     Optional argument) is <<>> for None and <<v>> for the value v;      *)
(*   - a dict (a JSON object) is a function on the keys it holds;          *)
(*   - topic strings are sequences of words, so that f-string formatting   *)
(*     is concatenation and `x in topic` is a subsequence test;            *)
(*   - json.dumps / json.loads are applied to JSON-compatible values only, *)
(*     so a published payload is recorded as the value the receiver        *)
(*     decodes; a payload json.loads rejects is the value BadJson;         *)
(*   - datetime.now() reads the variable now (whole seconds).              *)
(***************************************************************************)
EXTENDS Integers, Sequences, FiniteSets, TLC

None == <<>>
Some(v) == <<v>>
Val(o) == o[1]

\* a dict is a function on its keys; {} is the empty function
EmptyDict == <<>>

\* dict.get(key): None when the key is missing
DictGet(d, key) == IF key \in DOMAIN d THEN Some(d[key]) ELSE None

\* dict.get(key, default)
DictGetOr(d, key, default) == IF key \in DOMAIN d THEN d[key] ELSE default

\* mutant of Truthy: only None is falsy
Truthy_NotNone(o) == o # None

\* bool(x) of an optional string: None and '' are falsy
Truthy(o) == o # None /\ Val(o) # ""

\* JSON scalars of a field that may hold a number or something else
Number(n) == [num |-> n]
Text(s) == [str |-> s]
IsNumber(v) == "num" \in DOMAIN v

(***************************************************************************)
(* Bounds of the model                                                     *)
(***************************************************************************)
MaxEvents == 3
MaxCommands == 3
MaxNow == 122
MaxStateNow == 2
MaxLedgerEvents == 1002
MaxConfirms == 3
MaxQueryEvents == 3
MaxSessionEvents == 1
MaxClassifyEvents == 1
MaxUnmatchedEvents == 1

(***************************************************************************)
(* Strings that are searched or concatenated are sequences over an         *)
(* alphabet of words: the category tokens, the direction tokens, "/",      *)
(* "default" and the codes the session is built with. No word of the       *)
(* alphabet occurs inside another or across the joint of two others, so    *)
(* Python's substring test on the text is the subsequence test on words.   *)
(***************************************************************************)
Slash == <<"/">>
S2M == <<"S2M">>
M2S == <<"M2S">>
DefaultPrefix == <<"default">>
\* the codes main() builds its session with, and the product code written
\* into the built-in overrides
MainProductCode == <<"100100003">>
MainDeviceCode == <<"0000014">>
ManualProduct == <<"100100003">>
ManualDevice == <<"9999998">>

\* class MessageType: the members in definition order, and their values
MessageType == <<"KEEPALIVE", "STATE", "EVENT", "CONFIRM", "REQUEST", "RESPONSE">>

MessageTypeValue(mt) ==
    CASE mt = "KEEPALIVE" -> <<"keepalive">>
      [] mt = "STATE"     -> <<"state">>
      [] mt = "EVENT"     -> <<"event">>
      [] mt = "CONFIRM"   -> <<"confirm">>
      [] mt = "REQUEST"   -> <<"request">>
      [] mt = "RESPONSE"  -> <<"response">>

SubscribeTypes == <<"KEEPALIVE", "STATE", "EVENT", "RESPONSE">>

\* class CommandType: member -> wire identifier
CommandTypeValue(ct) ==
    CASE ct = "POWER_CONTROL"          -> "powerCtrlReq"
      [] ct = "OTA_UPGRADE"            -> "otaReq"
      [] ct = "CHARGE_POWER_ADJUST"    -> "powerAdjustSetReq"
      [] ct = "DISCHARGE_POWER_ADJUST" -> "powerAdjustSetDischargeReq"
      [] ct = "CHARGE_RATE_MODE"       -> "rateModeSetReq"
      [] ct = "DISCHARGE_RATE_MODE"    -> "dischgRateModeSetReq"
      [] ct = "CHARGE_SOC_SET"         -> "chgSocSetReq"
      [] ct = "DISCHARGE_SOC_SET"      -> "dischgSocSetReq"

(***************************************************************************)
(* State                                                                   *)
(***************************************************************************)
VARIABLES
    product_code,          \* product code the session was built with
    device_code,           \* device code the session was built with
    pc,                    \* where the thread of run_cloud_manager stands
    frames,                \* thread -> the call it is in: its place and its locals
    peer_total_money,      \* total_money in the __dict__ of a second session, None while absent
    use_auto_topic,        \* topic mode switch
    manual_topics,         \* direction -> (MessageType member -> topic)
    connected,             \* connectivity flag
    last_heartbeat,        \* None or the last-seen time
    last_heartbeat_str,    \* None or the last heartbeat as text
    pcs_info, pcs_state, bat_info, bat_state, em_state, ess_state,
    event_logs,            \* sequence of event records
    command_history,       \* sequence of command history entries
    charge_records,        \* order_sn -> record
    discharge_records,     \* order_sn -> record
    charge_order_sns,      \* sequence of order_sn, insertion order
    discharge_order_sns,   \* sequence of order_sn, insertion order
    message_index,         \* message counter
    pending_commands,      \* index -> pending command entry
    total_money,           \* running total
    last_orderSn,          \* order number of the last start command
    loop_running,          \* paho client: the network loop thread is running
    connack,               \* paho client: a CONNACK is outstanding
    subscribed,            \* paho client: topic filters subscribed on the connection
    published,             \* paho client: every message handed to publish(), in order
    now,                   \* the wall clock read by datetime.now()
    last_call              \* the last operation run, its input and return value

\* what no operation of the session changes
callerVars == <<product_code, device_code, pc, frames, peer_total_money>>
topicVars == <<callerVars, use_auto_topic, manual_topics>>
liveVars == <<connected, last_heartbeat, last_heartbeat_str>>
snapshotVars == <<pcs_info, pcs_state, bat_info, bat_state, em_state, ess_state>>
recordVars == <<charge_records, discharge_records, charge_order_sns,
                discharge_order_sns, total_money>>
commandVars == <<command_history, message_index, pending_commands, last_orderSn>>
clientVars == <<loop_running, connack, subscribed>>

vars == <<topicVars, liveVars, snapshotVars, event_logs, recordVars, commandVars,
          clientVars, published, now, last_call>>

(***************************************************************************)
(* Topics                                                                  *)
(***************************************************************************)
ManualTopic(dir, mt) ==
    ManualProduct \o Slash \o ManualDevice \o Slash \o dir \o Slash \o MessageTypeValue(mt)

\* mutant of _get_topic: the derived scheme in either mode
_get_topic_AlwaysDerived(message_type, direction) ==
    LET direction_str == IF direction = "subscribe" THEN S2M ELSE M2S
    IN  product_code \o Slash \o device_code \o Slash \o direction_str
            \o Slash \o MessageTypeValue(message_type)

\* CloudESSManager._get_topic
_get_topic(message_type, direction) ==
    IF use_auto_topic
    THEN LET direction_str == IF direction = "subscribe" THEN S2M ELSE M2S
         IN  product_code \o Slash \o device_code \o Slash \o direction_str
                 \o Slash \o MessageTypeValue(message_type)
    ELSE IF message_type \in DOMAIN manual_topics[direction]
         THEN manual_topics[direction][message_type]
         ELSE DefaultPrefix \o Slash \o MessageTypeValue(message_type)

\* mutant of SubscribeTopics: the topics of all six categories
SubscribeTopics_AllCategories ==
    { _get_topic(MessageType[i], "subscribe") : i \in 1..Len(MessageType) }

\* the topics _subscribe_topics subscribes to, in the current mode
SubscribeTopics == { _get_topic(SubscribeTypes[i], "subscribe") : i \in 1..Len(SubscribeTypes) }

\* client.publish(topic, json.dumps(payload))
Publish(topic, payload) == Append(published, [topic |-> topic, payload |-> payload])

(***************************************************************************)
(* Construction                                                            *)
(***************************************************************************)
\* threads that call into the session beside the thread of the MQTT client;
\* a thread that is in no call stands at "idle"
Threads == {"t1", "t2"}

\* the thread that loop_start starts: it runs _on_connect and _on_message
ClientThread == "mqtt"
Idle == [at |-> "idle"]

\* CloudESSManager.__init__: the mode the caller passes is not read, line 63
\* assigns True
Construct(new_product_code, new_device_code, new_use_auto_topic) ==
    /\ product_code = new_product_code
    /\ device_code = new_device_code
    /\ pc = "start"
    /\ frames = [t \in Threads \cup {ClientThread} |-> Idle]
    /\ peer_total_money = None
    /\ use_auto_topic = TRUE
    /\ manual_topics =
         [subscribe |-> [mt \in {"KEEPALIVE", "STATE", "EVENT", "RESPONSE"} |-> ManualTopic(S2M, mt)],
          publish   |-> [mt \in {"CONFIRM", "REQUEST"} |-> ManualTopic(M2S, mt)]]
    /\ connected = FALSE
    /\ last_heartbeat = None
    /\ last_heartbeat_str = None
    /\ pcs_info = EmptyDict
    /\ pcs_state = EmptyDict
    /\ bat_info = EmptyDict
    /\ bat_state = EmptyDict
    /\ em_state = EmptyDict
    /\ ess_state = EmptyDict
    /\ event_logs = <<>>
    /\ command_history = <<>>
    /\ charge_records = <<>>
    /\ discharge_records = <<>>
    /\ charge_order_sns = <<>>
    /\ discharge_order_sns = <<>>
    /\ message_index = 1
    /\ pending_commands = <<>>
    /\ total_money = 0
    /\ last_orderSn = <<>>
    /\ loop_running = FALSE
    /\ connack = FALSE
    /\ subscribed = {}
    /\ published = <<>>
    /\ now = 0
    /\ last_call = [op |-> "__init__", use_auto_topic |-> new_use_auto_topic]

\* a session built without the argument use_auto_topic, which defaults to True
InitWith(new_product_code, new_device_code) ==
    Construct(new_product_code, new_device_code, TRUE)

\* the session main() builds
Init == InitWith(MainProductCode, MainDeviceCode)

(***************************************************************************)
(* Session lifecycle                                                       *)
(***************************************************************************)
\* CloudESSManager.connect: client.connect opens a fresh connection (a clean
\* session, so no subscription survives) and loop_start starts the delivery
\* thread; the broker's CONNACK is delivered later to _on_connect.
connect ==
    /\ loop_running' = TRUE
    /\ connack' = TRUE
    /\ subscribed' = {}
    /\ last_call' = [op |-> "connect"]
    /\ UNCHANGED <<topicVars, liveVars, snapshotVars, event_logs, recordVars,
                   commandVars, published, now>>

\* _subscribe_topics, lines 139-142, on the subscriptions subs with the topics
\* that _get_topic resolves: unsubscribe("#") removes the filter "#" only (an
\* UNSUBSCRIBE names filters, it does not match them); then the topics are
\* subscribed
Resubscribe(subs, topics) == (subs \ {<<"#">>}) \cup topics

\* CloudESSManager._subscribe_topics
_subscribe_topics(subs) == Resubscribe(subs, SubscribeTopics)

\* mutant of set_manual_topic: the override is stored for any category of a
\* direction the table has
set_manual_topic_Inserts(message_type, direction, topic) ==
    /\ IF direction \in DOMAIN manual_topics
       THEN /\ manual_topics' =
                   [manual_topics EXCEPT ![direction] =
                       [mt \in DOMAIN @ \cup {message_type} |->
                           IF mt = message_type THEN topic ELSE @[mt]]]
            /\ last_call' = [op |-> "set_manual_topic", message_type |-> message_type,
                             direction |-> direction, topic |-> topic,
                             printed |-> "set", result |-> None]
       ELSE /\ UNCHANGED manual_topics
            /\ last_call' = [op |-> "set_manual_topic", message_type |-> message_type,
                             direction |-> direction, topic |-> topic,
                             printed |-> "invalid", result |-> None]
    /\ UNCHANGED <<callerVars, use_auto_topic, liveVars, snapshotVars, event_logs, recordVars,
                   commandVars, clientVars, published, now>>

\* CloudESSManager.set_manual_topic: either branch prints a line and falls off
\* the end of the method, so the call returns None
set_manual_topic(message_type, direction, topic) ==
    /\ IF direction \in DOMAIN manual_topics /\ message_type \in DOMAIN manual_topics[direction]
       THEN /\ manual_topics' = [manual_topics EXCEPT ![direction][message_type] = topic]
            /\ last_call' = [op |-> "set_manual_topic", message_type |-> message_type,
                             direction |-> direction, topic |-> topic,
                             printed |-> "set", result |-> None]
       ELSE /\ UNCHANGED manual_topics
            /\ last_call' = [op |-> "set_manual_topic", message_type |-> message_type,
                             direction |-> direction, topic |-> topic,
                             printed |-> "invalid", result |-> None]
    /\ UNCHANGED <<callerVars, use_auto_topic, liveVars, snapshotVars, event_logs, recordVars,
                   commandVars, clientVars, published, now>>

\* CloudESSManager.toggle_topic_mode: the topics are resolved under the mode
\* just set
toggle_topic_mode(new_use_auto_topic) ==
    /\ use_auto_topic' = new_use_auto_topic
    /\ UNCHANGED <<callerVars, manual_topics>>
    /\ IF connected
       THEN subscribed' = Resubscribe(subscribed, SubscribeTopics')
       ELSE UNCHANGED subscribed
    /\ last_call' = [op |-> "toggle_topic_mode", use_auto_topic |-> new_use_auto_topic]
    /\ UNCHANGED <<liveVars, snapshotVars, event_logs, recordVars, commandVars,
                   loop_running, connack, published, now>>

\* mutant of _on_connect: the return code is ignored
_on_connect_IgnoresRc(rc) ==
    /\ loop_running
    /\ connack
    /\ connack' = FALSE
    /\ connected' = TRUE
    /\ subscribed' = _subscribe_topics(subscribed)
    /\ last_call' = [op |-> "_on_connect", rc |-> rc]
    /\ UNCHANGED <<topicVars, last_heartbeat, last_heartbeat_str, snapshotVars,
                   event_logs, recordVars, commandVars, loop_running, published, now>>

\* CloudESSManager._on_connect
_on_connect(rc) ==
    /\ loop_running
    /\ connack
    /\ connack' = FALSE
    /\ IF rc = 0
       THEN /\ connected' = TRUE
            /\ subscribed' = _subscribe_topics(subscribed)
       ELSE /\ connected' = FALSE
            /\ UNCHANGED subscribed
    /\ last_call' = [op |-> "_on_connect", rc |-> rc]
    /\ UNCHANGED <<topicVars, last_heartbeat, last_heartbeat_str, snapshotVars,
                   event_logs, recordVars, commandVars, loop_running, published, now>>

\* mutant of disconnect: the connectivity flag is left as it was
disconnect_KeepsFlag ==
    /\ loop_running' = FALSE
    /\ connack' = FALSE
    /\ subscribed' = {}
    /\ last_call' = [op |-> "disconnect"]
    /\ UNCHANGED <<topicVars, liveVars, snapshotVars, event_logs, recordVars,
                   commandVars, published, now>>

\* CloudESSManager.disconnect
disconnect ==
    /\ loop_running' = FALSE
    /\ connack' = FALSE
    /\ subscribed' = {}
    /\ connected' = FALSE
    /\ last_call' = [op |-> "disconnect"]
    /\ UNCHANGED <<topicVars, last_heartbeat, last_heartbeat_str, snapshotVars,
                   event_logs, recordVars, commandVars, published, now>>

\* time passes, up to a limit
Tick(limit) ==
    /\ now < limit
    /\ now' = now + 1
    /\ UNCHANGED <<topicVars, liveVars, snapshotVars, event_logs, recordVars,
                   commandVars, clientVars, published, last_call>>

(***************************************************************************)
(* Inbound messages                                                        *)
(***************************************************************************)
\* `sub in s` for strings
Contains(sub, s) ==
    \E i \in 0..(Len(s) - Len(sub)) : \A j \in 1..Len(sub) : s[i + j] = sub[j]

\* a payload json.loads raises on
BadJson == [bad |-> "json"]

\* json.loads(payload_str) returns: the payload is a JSON document, neither
\* BadJson nor the text of a heartbeat
Decodes(payload) ==
    /\ payload # BadJson
    /\ "ymdhms" \notin DOMAIN payload
    /\ "text" \notin DOMAIN payload
    /\ "unpadded" \notin DOMAIN payload

\* strftime("%Y-%m-%d %H:%M:%S") of the time t
strftime(t) == [ymdhms |-> t]

\* the time t written without leading zeros, as in "2024-1-1 0:0:5"
Unpadded(t) == [unpadded |-> t]

\* strptime(text, "%Y-%m-%d %H:%M:%S"): the time, or None for ValueError;
\* the directives %m, %d, %H, %M and %S also match one digit
strptime(text) ==
    IF "ymdhms" \in DOMAIN text THEN Some(text.ymdhms)
    ELSE IF "unpadded" \in DOMAIN text THEN Some(text.unpadded)
    ELSE None

\* _on_message, lines 174-184: the category of a topic, None if unrecognised
Classify(topic) ==
    IF use_auto_topic
    THEN LET hits == { i \in 1..Len(MessageType) :
                         Contains(MessageTypeValue(MessageType[i]), topic) }
         IN  IF hits = {} THEN None
             ELSE Some(MessageType[CHOOSE i \in hits : \A j \in hits : i <= j])
    ELSE LET hits == { i \in 1..Len(SubscribeTypes) :
                         /\ SubscribeTypes[i] \in DOMAIN manual_topics["subscribe"]
                         /\ manual_topics["subscribe"][SubscribeTypes[i]] = topic }
         IN  IF hits = {} THEN None
             ELSE Some(SubscribeTypes[CHOOSE i \in hits : \A j \in hits : i <= j])

\* CloudESSManager._handle_heartbeat
_handle_heartbeat(payload_str) ==
    LET heartbeat_time == strptime(payload_str)
    IN  /\ IF heartbeat_time # None
           THEN /\ last_heartbeat_str' = Some(payload_str)
                /\ last_heartbeat' = heartbeat_time
                /\ connected' = TRUE
           ELSE UNCHANGED liveVars
        /\ UNCHANGED <<snapshotVars, event_logs, recordVars, commandVars, published>>

\* _handle_state_message: function identifier -> attribute
state_mappings ==
    [pcsInfo |-> "pcs_info", pcsState |-> "pcs_state", batInfo |-> "bat_info",
     batState |-> "bat_state", emState |-> "em_state", essState |-> "ess_state"]

\* mutant of SetAttr: the new value is merged into the old one
SetAttr_Merge(name, old, attr, value) == IF attr = name THEN value @@ old ELSE old

\* setattr(self, attr, value) on one snapshot attribute: its value afterwards
SetAttr(name, old, attr, value) == IF attr = name THEN value ELSE old

\* CloudESSManager._handle_state_message
_handle_state_message(payload) ==
    LET header == DictGetOr(payload, "header", EmptyDict)
        data_body == DictGetOr(payload, "dataBody", EmptyDict)
        function == DictGet(header, "function")
    IN  /\ IF function # None /\ Val(function) \in DOMAIN state_mappings
           THEN LET attr == state_mappings[Val(function)]
                IN  /\ pcs_info' = SetAttr("pcs_info", pcs_info, attr, data_body)
                    /\ pcs_state' = SetAttr("pcs_state", pcs_state, attr, data_body)
                    /\ bat_info' = SetAttr("bat_info", bat_info, attr, data_body)
                    /\ bat_state' = SetAttr("bat_state", bat_state, attr, data_body)
                    /\ em_state' = SetAttr("em_state", em_state, attr, data_body)
                    /\ ess_state' = SetAttr("ess_state", ess_state, attr, data_body)
                    /\ last_heartbeat' = Some(now)
                    /\ last_heartbeat_str' = Some(strftime(now))
           ELSE UNCHANGED <<snapshotVars, last_heartbeat, last_heartbeat_str>>
        /\ UNCHANGED <<connected, event_logs, recordVars, commandVars, published>>

\* len(self.event_logs) > 1000
LogLimit == 1000

\* self.connection_timeout
connection_timeout == 120

\* mutant of AppendEvent: the newest entry goes first, the last is dropped over the limit
AppendEvent_NewestFirst(logs, event) ==
    LET inserted == <<event>> \o logs
    IN  IF Len(inserted) > LogLimit THEN SubSeq(inserted, 1, LogLimit) ELSE inserted

\* _handle_event_message, lines 260-264: append, then drop the oldest over the limit
AppendEvent(logs, event) ==
    LET appended == Append(logs, event)
    IN  IF Len(appended) > LogLimit THEN Tail(appended) ELSE appended

\* _process_charge_record, lines 287-298
ChargeRecord(data_body) ==
    [order_sn    |-> data_body.orderSn,
     start_time  |-> DictGet(data_body, "startTime"),
     stop_time   |-> DictGet(data_body, "stopTime"),
     electAmount |-> Some(DictGetOr(data_body, "electAmount", Number(0))),
     total_money |-> DictGetOr(data_body, "totalMoney", Number(0)),
     start_soc   |-> DictGetOr(data_body, "startSoc", Number(0)),
     stop_soc    |-> DictGetOr(data_body, "stopSoc", Number(0)),
     chgTime     |-> DictGetOr(data_body, "chgTime", Number(0)),
     rateModelID |-> DictGetOr(data_body, "rateModelID", Number(0)),
     created_at  |-> strftime(now)]

\* _process_discharge_record, lines 315-326
DischargeRecord(data_body) ==
    [order_sn    |-> data_body.orderSn,
     start_time  |-> DictGet(data_body, "startTime"),
     stop_time   |-> DictGet(data_body, "stopTime"),
     electAmount |-> DictGet(data_body, "electAmount"),
     total_money |-> DictGetOr(data_body, "totalMoney", Number(0)),
     start_soc   |-> DictGetOr(data_body, "startSoc", Number(0)),
     stop_soc    |-> DictGetOr(data_body, "stopSoc", Number(0)),
     duration    |-> DictGetOr(data_body, "chgTime", Number(0)),
     rateModelID |-> DictGetOr(data_body, "rateModelID", Number(0)),
     created_at  |-> strftime(now)]

\* records[order_sn] = record
StoreRecord(records, order_sn, record) ==
    [k \in DOMAIN records \cup {order_sn} |-> IF k = order_sn THEN record ELSE records[k]]

\* mutant of IndexOrderSn: the order number is appended every time
IndexOrderSn_AlwaysAppends(order_sns, order_sn) == Append(order_sns, order_sn)

\* if order_sn not in order_sns: order_sns.append(order_sn)
IndexOrderSn(order_sns, order_sn) ==
    IF \E i \in 1..Len(order_sns) : order_sns[i] = order_sn
    THEN order_sns
    ELSE Append(order_sns, order_sn)

\* mutant of AddMoney: the total is set to the amount
AddMoney_Overwrites(total, amount) == IF IsNumber(amount) THEN Some(amount.num) ELSE None

\* self.total_money += record["total_money"]: the new total, None for the
\* TypeError that adding something that is not a number raises
AddMoney(total, amount) == IF IsNumber(amount) THEN Some(total + amount.num) ELSE None

\* the record step of _handle_event_message (lines 266-271) raises
RecordRaises(payload) ==
    LET header == DictGetOr(payload, "header", EmptyDict)
        data_body == DictGetOr(payload, "dataBody", EmptyDict)
        function == DictGet(header, "function")
    IN  /\ function \in {Some("chargeRecord"), Some("dischargeRecord")}
        /\ Truthy(DictGet(data_body, "orderSn"))
        /\ AddMoney(total_money, DictGetOr(data_body, "totalMoney", Number(0))) = None

\* CloudESSManager._process_charge_record
_process_charge_record(payload) ==
    LET data_body == DictGetOr(payload, "dataBody", EmptyDict)
        order_sn == DictGet(data_body, "orderSn")
    IN  IF ~Truthy(order_sn)
        THEN UNCHANGED recordVars
        ELSE LET record == ChargeRecord(data_body)
                 total == AddMoney(total_money, record.total_money)
             IN  /\ charge_records' = StoreRecord(charge_records, Val(order_sn), record)
                 /\ charge_order_sns' = IndexOrderSn(charge_order_sns, Val(order_sn))
                 /\ total_money' = IF total = None THEN total_money ELSE Val(total)
                 /\ UNCHANGED <<discharge_records, discharge_order_sns>>

\* CloudESSManager._process_discharge_record
_process_discharge_record(payload) ==
    LET data_body == DictGetOr(payload, "dataBody", EmptyDict)
        order_sn == DictGet(data_body, "orderSn")
    IN  IF ~Truthy(order_sn)
        THEN UNCHANGED recordVars
        ELSE LET record == DischargeRecord(data_body)
                 total == AddMoney(total_money, record.total_money)
             IN  /\ discharge_records' = StoreRecord(discharge_records, Val(order_sn), record)
                 /\ discharge_order_sns' = IndexOrderSn(discharge_order_sns, Val(order_sn))
                 /\ total_money' = IF total = None THEN total_money ELSE Val(total)
                 /\ UNCHANGED <<charge_records, charge_order_sns>>

\* mutant of ConfirmFunction: the names of the ConfirmType members, not their values
ConfirmFunction_MemberNames(function) ==
    IF function = Some("chargeEvent") THEN "chargeEventConf"
    ELSE IF function = Some("dischargeEvent") THEN "dischargeEventConf"
    ELSE IF function = Some("faultRecord") THEN "faultRecordConf"
    ELSE IF function = Some("chargeRecord") THEN "chargeRecordConf"
    ELSE IF function = Some("dischargeRecord") THEN "dischargeRecordConf"
    ELSE ""

\* _send_confirm, lines 339-353: the confirm function of an event function
ConfirmFunction(function) ==
    IF function = Some("chargeEvent") THEN "chgEventConf"
    ELSE IF function = Some("dischargeEvent") THEN "dischgEventConf"
    ELSE IF function = Some("faultRecord") THEN "faultRecordConf"
    ELSE IF function = Some("chargeRecord") THEN "chargeRecordConf"
    ELSE IF function = Some("dischargeRecord") THEN "dischargeRecordConf"
    ELSE ""

\* CloudESSManager._send_confirm: the messages published afterwards
_send_confirm(index, order_sn, function) ==
    IF index = None
    THEN published
    ELSE LET confirm_payload ==
                 [header   |-> [index       |-> Val(index),
                                version     |-> "1.0",
                                timestamp   |-> strftime(now),
                                messageType |-> "confirm",
                                function    |-> ConfirmFunction(function)],
                  dataBody |-> [orderSn |-> order_sn, result |-> 1, reason |-> 1]]
         IN  Publish(_get_topic("CONFIRM", "publish"), confirm_payload)

\* CloudESSManager._handle_event_message; an exception raised by the record
\* step leaves the handler before the confirmation and the last-seen refresh
_handle_event_message(payload) ==
    LET header == DictGetOr(payload, "header", EmptyDict)
        data_body == DictGetOr(payload, "dataBody", EmptyDict)
        function == DictGet(header, "function")
        event == [timestamp |-> DictGet(header, "timeStamp"),
                  realtime  |-> now,
                  function  |-> function,
                  header    |-> header,
                  data      |-> data_body]
    IN  /\ event_logs' = AppendEvent(event_logs, event)
        /\ IF function = Some("chargeRecord") THEN _process_charge_record(payload)
           ELSE IF function = Some("dischargeRecord") THEN _process_discharge_record(payload)
           ELSE UNCHANGED recordVars
        /\ IF RecordRaises(payload)
           THEN UNCHANGED <<published, last_heartbeat>>
           ELSE /\ published' = _send_confirm(DictGet(header, "index"),
                                              DictGet(data_body, "orderSn"), function)
                /\ last_heartbeat' = Some(now)
        /\ UNCHANGED <<connected, last_heartbeat_str, snapshotVars, commandVars>>

\* mutant of CompleteCommand: the status is left as it was
CompleteCommand_StaysPending(entry, payload) == [entry EXCEPT !.response = Some(payload)]

\* _handle_response_message, lines 382-383: the entry of a matched response
CompleteCommand(entry, payload) ==
    [entry EXCEPT !.status = "completed", !.response = Some(payload)]

\* mutant of _handle_response_message: a matched entry is removed
_handle_response_message_Removes(payload) ==
    LET header == DictGetOr(payload, "header", EmptyDict)
        msg_index == DictGet(header, "index")
    IN  /\ IF msg_index # None /\ Val(msg_index) \in DOMAIN pending_commands
           THEN pending_commands' =
                    [k \in DOMAIN pending_commands \ {Val(msg_index)} |-> pending_commands[k]]
           ELSE UNCHANGED pending_commands
        /\ UNCHANGED <<liveVars, snapshotVars, event_logs, recordVars, command_history,
                       message_index, last_orderSn, published>>

\* mutant of _handle_response_message: every response refreshes last-seen
_handle_response_message_RefreshesLastSeen(payload) ==
    LET header == DictGetOr(payload, "header", EmptyDict)
        msg_index == DictGet(header, "index")
    IN  /\ IF msg_index # None /\ Val(msg_index) \in DOMAIN pending_commands
           THEN pending_commands' =
                    [pending_commands EXCEPT ![Val(msg_index)] = CompleteCommand(@, payload)]
           ELSE UNCHANGED pending_commands
        /\ last_heartbeat' = Some(now)
        /\ UNCHANGED <<connected, last_heartbeat_str, snapshotVars, event_logs, recordVars,
                       command_history, message_index, last_orderSn, published>>

\* CloudESSManager._handle_response_message
_handle_response_message(payload) ==
    LET header == DictGetOr(payload, "header", EmptyDict)
        msg_index == DictGet(header, "index")
    IN  /\ IF msg_index # None /\ Val(msg_index) \in DOMAIN pending_commands
           THEN pending_commands' =
                    [pending_commands EXCEPT ![Val(msg_index)] = CompleteCommand(@, payload)]
           ELSE UNCHANGED pending_commands
        /\ UNCHANGED <<liveVars, snapshotVars, event_logs, recordVars, command_history,
                       message_index, last_orderSn, published>>

\* mutant of Dropped: a dropped message refreshes last-seen
Dropped_RefreshesLastSeen ==
    /\ last_heartbeat' = Some(now)
    /\ UNCHANGED <<connected, last_heartbeat_str, snapshotVars, event_logs, recordVars,
                   commandVars, published>>

\* the state a message that is dropped, or whose decoding raises, leaves behind
Dropped ==
    UNCHANGED <<liveVars, snapshotVars, event_logs, recordVars, commandVars, published>>

\* CloudESSManager._on_message: a message the broker delivers on a subscribed
\* topic while the delivery loop runs; every exception is absorbed
_on_message(msg) ==
    /\ loop_running
    /\ msg.topic \in subscribed
    /\ LET msg_type == Classify(msg.topic)
       IN  IF msg_type = None THEN Dropped
           ELSE IF msg_type = Some("KEEPALIVE") THEN _handle_heartbeat(msg.payload)
           ELSE IF ~Decodes(msg.payload) THEN Dropped
           ELSE IF msg_type = Some("STATE") THEN _handle_state_message(msg.payload)
           ELSE IF msg_type = Some("EVENT") THEN _handle_event_message(msg.payload)
           ELSE IF msg_type = Some("RESPONSE") THEN _handle_response_message(msg.payload)
           ELSE Dropped
    /\ last_call' = [op |-> "_on_message", msg |-> msg]
    /\ UNCHANGED <<topicVars, clientVars, now>>

(***************************************************************************)
(* Commands                                                                *)
(***************************************************************************)
\* the sentinel a command operation returns when it sends nothing
Failure == -1

\* send_command, lines 398-406
CommandPayload(msg_index, command_type, params) ==
    [header   |-> [index     |-> msg_index,
                   version   |-> "1.0",
                   function  |-> CommandTypeValue(command_type),
                   timestamp |-> strftime(now)],
     dataBody |-> params]

\* send_command, lines 409-415
PendingEntry(command_type, params) ==
    [type      |-> command_type,
     params    |-> params,
     timestamp |-> now,
     status    |-> "pending",
     response  |-> None]

\* send_command, lines 394-395: the index the command is sent under
NextIndex(index) == index + 1

\* send_command, lines 394-422, once the connectivity check has passed: the
\* index is advanced, the pending entry recorded and the request published
SendCommand(command_type, params) ==
    LET msg_index == NextIndex(message_index)
    IN  /\ message_index' = msg_index
        /\ pending_commands' =
               [k \in DOMAIN pending_commands \cup {msg_index} |->
                   IF k = msg_index THEN PendingEntry(command_type, params)
                   ELSE pending_commands[k]]
        /\ published' = Publish(_get_topic("REQUEST", "publish"),
                                CommandPayload(msg_index, command_type, params))

\* what every command operation leaves alone
CommandFrame ==
    UNCHANGED <<topicVars, liveVars, snapshotVars, event_logs, recordVars, clientVars, now>>

\* mutant of send_command: no connectivity check
send_command_Unchecked(command_type, params) ==
    /\ message_index < 1 + MaxCommands
    /\ SendCommand(command_type, params)
    /\ last_call' = [op |-> "send_command", command_type |-> command_type,
                     params |-> params, result |-> NextIndex(message_index)]
    /\ UNCHANGED <<command_history, last_orderSn>>
    /\ CommandFrame

\* CloudESSManager.send_command
send_command(command_type, params) ==
    /\ IF ~connected
       THEN /\ last_call' = [op |-> "send_command", command_type |-> command_type,
                             params |-> params, result |-> Failure]
            /\ UNCHANGED <<commandVars, published>>
       ELSE /\ message_index < 1 + MaxCommands
            /\ SendCommand(command_type, params)
            /\ last_call' = [op |-> "send_command", command_type |-> command_type,
                             params |-> params, result |-> NextIndex(message_index)]
            /\ UNCHANGED <<command_history, last_orderSn>>
    /\ CommandFrame

(***************************************************************************)
(* Operations step by step, as threads interleave them. A step is what     *)
(* runs between two places where the interpreter may switch threads: one   *)
(* read or one write of an attribute of the session.                       *)
(***************************************************************************)
\* thread t moves to the frame; the steps change nothing of the other threads
Goto(t, frame) ==
    /\ frames' = [frames EXCEPT ![t] = frame]
    /\ UNCHANGED <<product_code, device_code, pc, peer_total_money, use_auto_topic,
                   manual_topics, last_call>>

\* mutant of SendOrder: the request is published before the entry is recorded
SendOrder_PublishFirst == <<"publish", "record">>

\* send_command, lines 409-420: the pending entry is recorded, then the
\* request is published
SendOrder == <<"record", "publish">>

\* the frame of thread t after the write at place: the other write of
\* SendOrder, or the return of msg_index (line 422)
AfterSend(t, place) ==
    IF SendOrder[1] = place THEN [at |-> SendOrder[2]] @@ frames[t]
    ELSE [at |-> "done", result |-> frames[t].msg_index] @@ frames[t]

\* a thread that has returned from its call is free for the next one
call_return(t) ==
    /\ frames[t].at = "done"
    /\ Goto(t, Idle)
    /\ UNCHANGED <<liveVars, snapshotVars, event_logs, recordVars, commandVars, clientVars,
                   published, now>>

\* send_command, lines 390-392: the call and its connectivity check
send_command_check(t, command_type, params) ==
    /\ frames[t] = Idle
    /\ Goto(t, IF ~connected
               THEN [at |-> "done", op |-> "send_command", command_type |-> command_type,
                     params |-> params, result |-> Failure]
               ELSE [at |-> "load", op |-> "send_command", command_type |-> command_type,
                     params |-> params])
    /\ UNCHANGED <<liveVars, snapshotVars, event_logs, recordVars, commandVars, clientVars,
                   published, now>>

\* send_command, line 394: `self.message_index += 1` reads the attribute
send_command_load(t) ==
    /\ frames[t].at = "load"
    /\ Goto(t, [at |-> "store", loaded |-> message_index] @@ frames[t])
    /\ UNCHANGED <<liveVars, snapshotVars, event_logs, recordVars, commandVars, clientVars,
                   published, now>>

\* send_command, line 394: `self.message_index += 1` writes the sum back
send_command_store(t) ==
    /\ frames[t].at = "store"
    /\ message_index' = NextIndex(frames[t].loaded)
    /\ Goto(t, [at |-> "read"] @@ frames[t])
    /\ UNCHANGED <<liveVars, snapshotVars, event_logs, recordVars, command_history,
                   pending_commands, last_orderSn, clientVars, published, now>>

\* send_command, line 395: msg_index = self.message_index
send_command_read(t) ==
    /\ frames[t].at = "read"
    /\ Goto(t, [at |-> SendOrder[1], msg_index |-> message_index] @@ frames[t])
    /\ UNCHANGED <<liveVars, snapshotVars, event_logs, recordVars, commandVars, clientVars,
                   published, now>>

\* send_command, lines 409-415: the pending entry is recorded
send_command_record(t) ==
    /\ frames[t].at = "record"
    /\ pending_commands' =
           [k \in DOMAIN pending_commands \cup {frames[t].msg_index} |->
               IF k = frames[t].msg_index
               THEN PendingEntry(frames[t].command_type, frames[t].params)
               ELSE pending_commands[k]]
    /\ Goto(t, AfterSend(t, "record"))
    /\ UNCHANGED <<liveVars, snapshotVars, event_logs, recordVars, command_history,
                   message_index, last_orderSn, clientVars, published, now>>

\* send_command, lines 418-422: the request is published and the index returned
send_command_publish(t) ==
    /\ frames[t].at = "publish"
    /\ published' = Publish(_get_topic("REQUEST", "publish"),
                            CommandPayload(frames[t].msg_index, frames[t].command_type,
                                           frames[t].params))
    /\ Goto(t, AfterSend(t, "publish"))
    /\ UNCHANGED <<liveVars, snapshotVars, event_logs, recordVars, commandVars, clientVars, now>>

\* the steps of send_command after its check
send_command_steps(t) ==
    \/ send_command_load(t)
    \/ send_command_store(t)
    \/ send_command_read(t)
    \/ send_command_record(t)
    \/ send_command_publish(t)

\* mutant of HandlerOrder: the order number is indexed before its record is stored
HandlerOrder_IndexFirst == <<"log", "index", "store", "total", "confirm", "refresh">>

\* mutant of HandlerOrder: the event is confirmed before anything is stored
HandlerOrder_ConfirmFirst == <<"confirm", "log", "store", "index", "total", "refresh">>

\* the writes of _handle_event_message in the order of its statements: the
\* event log (line 260), the record step (lines 300, 301-302, 304), the
\* confirmation (line 276) and last-seen (line 277)
HandlerOrder == <<"log", "store", "index", "total", "confirm", "refresh">>

\* the event is a charge or discharge record with an order number: the
\* record step does not return at `if not order_sn`
HasRecord(payload) ==
    /\ DictGet(DictGetOr(payload, "header", EmptyDict), "function")
           \in {Some("chargeRecord"), Some("dischargeRecord")}
    /\ Truthy(DictGet(DictGetOr(payload, "dataBody", EmptyDict), "orderSn"))

\* the places of HandlerOrder the handler passes for the payload
PlacesFor(payload) ==
    SelectSeq(HandlerOrder,
              LAMBDA place : place \in {"store", "index", "total"} => HasRecord(payload))

\* the place after the k-th place the handler passes, "returned" after the last
PlaceAfter(payload, k) ==
    IF k < Len(PlacesFor(payload)) THEN PlacesFor(payload)[k + 1] ELSE "returned"

\* the thread of the client goes on to the place after the one it stands at
Proceed(raised) ==
    LET frame == frames[ClientThread]
    IN  Goto(ClientThread,
             IF raised THEN [at |-> "returned", raised |-> TRUE] @@ frame
             ELSE [at |-> PlaceAfter(frame.payload, frame.passed),
                   passed |-> frame.passed + 1] @@ frame)

\* _on_message up to the call of _handle_event_message: an event that decodes
event_receive(msg) ==
    /\ loop_running
    /\ msg.topic \in subscribed
    /\ frames[ClientThread].at \in {"idle", "returned"}
    /\ Classify(msg.topic) = Some("EVENT")
    /\ Decodes(msg.payload)
    /\ Goto(ClientThread, [at |-> PlaceAfter(msg.payload, 0), passed |-> 1,
                           payload |-> msg.payload, raised |-> FALSE])
    /\ UNCHANGED <<liveVars, snapshotVars, event_logs, recordVars, commandVars, clientVars,
                   published, now>>

\* _handle_event_message, lines 252-264: the event is appended to the log
event_log ==
    /\ frames[ClientThread].at = "log"
    /\ LET header == DictGetOr(frames[ClientThread].payload, "header", EmptyDict)
           data_body == DictGetOr(frames[ClientThread].payload, "dataBody", EmptyDict)
       IN  event_logs' = AppendEvent(event_logs,
                                     [timestamp |-> DictGet(header, "timeStamp"),
                                      realtime  |-> now,
                                      function  |-> DictGet(header, "function"),
                                      header    |-> header,
                                      data      |-> data_body])
    /\ Proceed(FALSE)
    /\ UNCHANGED <<liveVars, snapshotVars, recordVars, commandVars, clientVars, published, now>>

\* the record step works on the charge tables or on the discharge tables
OnCharge == frames[ClientThread].payload.header.function = "chargeRecord"

\* _process_charge_record, line 300 / _process_discharge_record, line 328:
\* the record is built and stored under its order number
record_store ==
    /\ frames[ClientThread].at = "store"
    /\ LET data_body == frames[ClientThread].payload.dataBody
       IN  IF OnCharge
           THEN /\ charge_records' =
                       StoreRecord(charge_records, data_body.orderSn, ChargeRecord(data_body))
                /\ UNCHANGED discharge_records
           ELSE /\ discharge_records' =
                       StoreRecord(discharge_records, data_body.orderSn,
                                   DischargeRecord(data_body))
                /\ UNCHANGED charge_records
    /\ Proceed(FALSE)
    /\ UNCHANGED <<liveVars, snapshotVars, event_logs, charge_order_sns, discharge_order_sns,
                   total_money, commandVars, clientVars, published, now>>

\* lines 301-302 / 329-330: the order number is appended to the index list
record_index ==
    /\ frames[ClientThread].at = "index"
    /\ LET order_sn == frames[ClientThread].payload.dataBody.orderSn
       IN  IF OnCharge
           THEN /\ charge_order_sns' = IndexOrderSn(charge_order_sns, order_sn)
                /\ UNCHANGED discharge_order_sns
           ELSE /\ discharge_order_sns' = IndexOrderSn(discharge_order_sns, order_sn)
                /\ UNCHANGED charge_order_sns
    /\ Proceed(FALSE)
    /\ UNCHANGED <<liveVars, snapshotVars, event_logs, charge_records, discharge_records,
                   total_money, commandVars, clientVars, published, now>>

\* line 304 / 332: the amount is added to the total; a TypeError leaves the
\* handler and is caught in _on_message
record_total ==
    /\ frames[ClientThread].at = "total"
    /\ LET total == AddMoney(total_money,
                             DictGetOr(frames[ClientThread].payload.dataBody,
                                       "totalMoney", Number(0)))
       IN  /\ total_money' = IF total = None THEN total_money ELSE Val(total)
           /\ Proceed(total = None)
    /\ UNCHANGED <<liveVars, snapshotVars, event_logs, charge_records, discharge_records,
                   charge_order_sns, discharge_order_sns, commandVars, clientVars,
                   published, now>>

\* _handle_event_message, line 276: _send_confirm
event_confirm ==
    /\ frames[ClientThread].at = "confirm"
    /\ LET header == DictGetOr(frames[ClientThread].payload, "header", EmptyDict)
           data_body == DictGetOr(frames[ClientThread].payload, "dataBody", EmptyDict)
       IN  published' = _send_confirm(DictGet(header, "index"), DictGet(data_body, "orderSn"),
                                      DictGet(header, "function"))
    /\ Proceed(FALSE)
    /\ UNCHANGED <<liveVars, snapshotVars, event_logs, recordVars, commandVars, clientVars, now>>

\* _handle_event_message, line 277: last-seen is refreshed
event_refresh ==
    /\ frames[ClientThread].at = "refresh"
    /\ last_heartbeat' = Some(now)
    /\ Proceed(FALSE)
    /\ UNCHANGED <<connected, last_heartbeat_str, snapshotVars, event_logs, recordVars,
                   commandVars, clientVars, published, now>>

\* the steps of _handle_event_message
event_steps ==
    \/ event_log
    \/ record_store
    \/ record_index
    \/ record_total
    \/ event_confirm
    \/ event_refresh

(***************************************************************************)
(* A second session of the same process. total_money is an attribute of    *)
(* the class (line 49) that no statement assigns on the class; of the      *)
(* second session only its total_money is kept.                            *)
(***************************************************************************)
\* CloudESSManager.total_money, the class attribute
ClassTotalMoney == 0

\* mutant of LoadTotal: the total is read from the first session
LoadTotal_Shared(own) == total_money

\* self.total_money as `+=` reads it: the entry of the instance's __dict__,
\* or the class attribute while the instance has none
LoadTotal(own) == IF own = None THEN ClassTotalMoney ELSE Val(own)

\* the second session processes a charge or discharge record: line 304 / 332
\* reads self.total_money and assigns the sum to the instance
peer_process_record(payload) ==
    /\ HasRecord(payload)
    /\ LET total == AddMoney(LoadTotal(peer_total_money),
                             DictGetOr(payload.dataBody, "totalMoney", Number(0)))
       IN  peer_total_money' = IF total = None THEN peer_total_money ELSE total
    /\ last_call' = [op |-> "peer_process_record", payload |-> payload]
    /\ UNCHANGED <<product_code, device_code, pc, frames, use_auto_topic, manual_topics,
                   liveVars, snapshotVars, event_logs, recordVars, commandVars, clientVars,
                   published, now>>

\* CloudESSManager._generate_order_sn: strftime("%Y%m%d%H%M%S"), a string
\* kept as the sequence of its parts
_generate_order_sn == <<ToString(now)>>

\* an entry of command_history as the wrappers of send_command append it
HistoryEntry(id, type, command_type) ==
    [id        |-> id,
     type      |-> type,
     payload   |-> CommandTypeValue(command_type),
     timestamp |-> strftime(now),
     status    |-> "sent"]

\* what a wrapper of send_command writes and sends once its own connectivity
\* check has passed: the new last_orderSn, the type of its history entry,
\* and the command with its parameters (those the front end passes)
WrapperPlan(op) ==
    CASE op = "send_charge_start" ->
             [orderSn |-> <<"12345678">> \o _generate_order_sn, type |-> "charge start",
              command_type |-> "POWER_CONTROL",
              params |-> [orderSn |-> _generate_order_sn, type |-> 1]]
      [] op = "send_discharge_start" ->
             [orderSn |-> <<"12345678">> \o _generate_order_sn, type |-> "discharge start",
              command_type |-> "POWER_CONTROL",
              params |-> [orderSn |-> _generate_order_sn, type |-> 2]]
      [] op = "send_shutdown_command" ->
             [orderSn |-> last_orderSn, type |-> "shutdown",
              command_type |-> "POWER_CONTROL",
              params |-> [orderSn |-> last_orderSn, type |-> 3]]
      [] op = "send_chgSocSet" ->
             [orderSn |-> last_orderSn, type |-> "charge SOC set",
              command_type |-> "CHARGE_SOC_SET",
              params |-> [deviceCode |-> device_code, deviceType |-> 1, param |-> 1,
                          operType |-> 1, paramValue |-> 100]]
      [] op = "send_dischgSocSet" ->
             [orderSn |-> last_orderSn, type |-> "discharge SOC set",
              command_type |-> "DISCHARGE_SOC_SET",
              params |-> [deviceCode |-> device_code, deviceType |-> 1, param |-> 2,
                          operType |-> 1, paramValue |-> 100]]
      [] op = "send_charge_power_adjust" ->
             [orderSn |-> last_orderSn, type |-> "charge power adjust",
              command_type |-> "CHARGE_POWER_ADJUST",
              params |-> [pcsNo |-> "-", ctrlType |-> 1, ctrlParam |-> 1, effect |-> 1,
                          ctrlValue |-> 50]]
      [] op = "send_discharge_power_adjust" ->
             [orderSn |-> last_orderSn, type |-> "discharge power adjust",
              command_type |-> "DISCHARGE_POWER_ADJUST",
              params |-> [pcsNo |-> "-", ctrlType |-> 1, ctrlParam |-> 1, effect |-> 1,
                          ctrlValue |-> 50]]

\* a wrapper, its first lines: the call and the wrapper's connectivity check;
\* the frame keeps what command_history and last_orderSn were at the call
wrapper_check(t, op) ==
    /\ frames[t] = Idle
    /\ Goto(t, [at |-> IF connected THEN "bookkeep" ELSE "done", op |-> op,
                before |-> [command_history |-> command_history,
                            last_orderSn |-> last_orderSn]]
               @@ (IF connected THEN <<>> ELSE [result |-> Failure]))
    /\ UNCHANGED <<liveVars, snapshotVars, event_logs, recordVars, commandVars, clientVars,
                   published, now>>

\* a wrapper, between its check and its call of send_command: last_orderSn is
\* assigned and the history entry appended
wrapper_bookkeep(t) ==
    /\ frames[t].at = "bookkeep"
    /\ LET plan == WrapperPlan(frames[t].op)
       IN  /\ last_orderSn' = plan.orderSn
           /\ command_history' =
                  Append(command_history,
                         HistoryEntry(plan.orderSn, plan.type, plan.command_type))
           /\ Goto(t, [at |-> "send", command_type |-> plan.command_type,
                       params |-> plan.params] @@ frames[t])
    /\ UNCHANGED <<liveVars, snapshotVars, event_logs, recordVars, message_index,
                   pending_commands, clientVars, published, now>>

\* a wrapper, its last statement: send_command is entered and checks the
\* connectivity flag again (lines 390-392); its -1 is the wrapper's result
wrapper_send(t) ==
    /\ frames[t].at = "send"
    /\ Goto(t, IF connected THEN [at |-> "load"] @@ frames[t]
               ELSE [at |-> "done", result |-> Failure] @@ frames[t])
    /\ UNCHANGED <<liveVars, snapshotVars, event_logs, recordVars, commandVars, clientVars,
                   published, now>>

\* a wrapper of send_command: the connectivity check, the order number and
\* history bookkeeping, then send_command
Wrapper(op, new_orderSn, type, command_type, params) ==
    /\ IF ~connected
       THEN /\ last_call' = [op |-> op, result |-> Failure]
            /\ UNCHANGED <<commandVars, published>>
       ELSE /\ message_index < 1 + MaxCommands
            /\ last_orderSn' = new_orderSn
            /\ command_history' =
                   Append(command_history, HistoryEntry(new_orderSn, type, command_type))
            /\ SendCommand(command_type, params)
            /\ last_call' = [op |-> op, result |-> NextIndex(message_index)]
    /\ CommandFrame

\* CloudESSManager.send_charge_start
send_charge_start ==
    LET order_sn == _generate_order_sn
    IN  Wrapper("send_charge_start", <<"12345678">> \o order_sn, "charge start",
                "POWER_CONTROL", [orderSn |-> order_sn, type |-> 1])

\* CloudESSManager.send_discharge_start
send_discharge_start ==
    LET order_sn == _generate_order_sn
    IN  Wrapper("send_discharge_start", <<"12345678">> \o order_sn, "discharge start",
                "POWER_CONTROL", [orderSn |-> order_sn, type |-> 2])

\* CloudESSManager.send_shutdown_command
send_shutdown_command ==
    Wrapper("send_shutdown_command", last_orderSn, "shutdown",
            "POWER_CONTROL", [orderSn |-> last_orderSn, type |-> 3])

\* CloudESSManager.send_chgSocSet
send_chgSocSet(deviceCode, deviceType, param, operType, paramValue) ==
    Wrapper("send_chgSocSet", last_orderSn, "charge SOC set", "CHARGE_SOC_SET",
            [deviceCode |-> deviceCode, deviceType |-> deviceType, param |-> param,
             operType |-> operType, paramValue |-> paramValue])

\* CloudESSManager.send_dischgSocSet
send_dischgSocSet(deviceCode, deviceType, param, operType, paramValue) ==
    Wrapper("send_dischgSocSet", last_orderSn, "discharge SOC set", "DISCHARGE_SOC_SET",
            [deviceCode |-> deviceCode, deviceType |-> deviceType, param |-> param,
             operType |-> operType, paramValue |-> paramValue])

\* CloudESSManager.send_charge_power_adjust
send_charge_power_adjust(ctrl_value, pcs_no, ctrl_type, ctrl_param, effect) ==
    Wrapper("send_charge_power_adjust", last_orderSn, "charge power adjust",
            "CHARGE_POWER_ADJUST",
            [pcsNo |-> pcs_no, ctrlType |-> ctrl_type, ctrlParam |-> ctrl_param,
             effect |-> effect, ctrlValue |-> ctrl_value])

\* CloudESSManager.send_discharge_power_adjust
send_discharge_power_adjust(ctrl_value, pcs_no, ctrl_type, ctrl_param, effect) ==
    Wrapper("send_discharge_power_adjust", last_orderSn, "discharge power adjust",
            "DISCHARGE_POWER_ADJUST",
            [pcsNo |-> pcs_no, ctrlType |-> ctrl_type, ctrlParam |-> ctrl_param,
             effect |-> effect, ctrlValue |-> ctrl_value])

\* send_rate_model_set, line 550: the largest number of segments
MaxSegments == 12

\* mutant of SegmentsValid: only the two lengths are compared
SegmentsValid_LengthsOnly(rate_list, rate_details_list) ==
    Len(rate_list) = Len(rate_details_list)

\* send_rate_model_set, line 550: the segment counts are accepted
SegmentsValid(rate_list, rate_details_list) ==
    ~(Len(rate_list) # Len(rate_details_list)
      \/ ~(1 <= Len(rate_list) /\ Len(rate_list) <= MaxSegments))

\* send_rate_model_set, lines 555-570: the header index is the counter as it
\* is when the payload is built, before the counter is advanced
RatePayload(index, rate_model_id, effect, effect_date, rate_list, rate_details_list, function_id) ==
    [header   |-> [version   |-> "V1.0.0",
                   timeStamp |-> strftime(now),
                   index     |-> index,
                   function  |-> function_id,
                   reason    |-> 0],
     dataBody |-> [rateModelID     |-> rate_model_id,
                   effect          |-> effect,
                   effectDate      |-> effect_date,
                   rateList        |-> rate_list,
                   rateDetailsList |-> rate_details_list]]

\* CloudESSManager.send_rate_model_set
send_rate_model_set(rate_model_id, effect, effect_date, rate_list, rate_details_list, function_id) ==
    LET call == [op |-> "send_rate_model_set", rates |-> Len(rate_list),
                 details |-> Len(rate_details_list), function_id |-> function_id]
    IN  /\ IF ~connected \/ ~SegmentsValid(rate_list, rate_details_list)
           THEN /\ last_call' = call @@ [result |-> Failure]
                /\ UNCHANGED <<commandVars, published>>
           ELSE LET payload == RatePayload(message_index, rate_model_id, effect,
                                           effect_date, rate_list, rate_details_list,
                                           function_id)
                    cmd_id == message_index + 1
                IN  /\ message_index < 1 + MaxCommands
                    /\ message_index' = cmd_id
                    /\ command_history' =
                           Append(command_history,
                                  [id |-> cmd_id, type |-> "rate model set",
                                   payload |-> payload, timestamp |-> strftime(now),
                                   status |-> "sent"])
                    /\ published' = Publish(_get_topic("REQUEST", "publish"), payload)
                    /\ last_call' = call @@ [result |-> cmd_id]
                    /\ UNCHANGED <<pending_commands, last_orderSn>>
        /\ CommandFrame

\* mutant of check_connection_status: the boundary counts as timed out
check_connection_status_Strict ==
    IF ~connected THEN FALSE
    ELSE IF last_heartbeat = None THEN TRUE
    ELSE now - Val(last_heartbeat) < connection_timeout

\* mutant of check_connection_status: no grace before the first message
check_connection_status_NoGrace ==
    IF ~connected THEN FALSE
    ELSE IF last_heartbeat = None THEN now <= connection_timeout
    ELSE now - Val(last_heartbeat) <= connection_timeout

\* CloudESSManager.check_connection_status at the current time
check_connection_status ==
    IF ~connected THEN FALSE
    ELSE IF last_heartbeat = None THEN TRUE
    ELSE LET time_diff == now - Val(last_heartbeat)
         IN  time_diff <= connection_timeout

(***************************************************************************)
(* Queries                                                                 *)
(***************************************************************************)
\* lst[start:] with Python's rules: a negative start counts from the end,
\* and a start outside the list is clipped
SliceFrom(lst, start) ==
    LET n == Len(lst)
        from == IF start < 0
                THEN (IF n + start < 0 THEN 0 ELSE n + start)
                ELSE (IF start > n THEN n ELSE start)
    IN  SubSeq(lst, from + 1, n)

\* lst[::-1]
Reversed(lst) == [k \in 1..Len(lst) |-> lst[Len(lst) - k + 1]]

\* the body get_charge_records and get_discharge_records share
GetRecords(records, order_sns, count, order_sn) ==
    IF Truthy(order_sn)
    THEN (IF Val(order_sn) \in DOMAIN records THEN <<records[Val(order_sn)]>> ELSE <<>>)
    ELSE LET recent_sns == Reversed(SliceFrom(order_sns, -count))
             kept == SelectSeq(recent_sns, LAMBDA sn : sn \in DOMAIN records)
         IN  [k \in 1..Len(kept) |-> records[kept[k]]]

\* what a query leaves alone: everything but the record of the call
QueryFrame ==
    UNCHANGED <<topicVars, liveVars, snapshotVars, event_logs, recordVars, commandVars,
                clientVars, published, now>>

\* CloudESSManager.get_charge_records
get_charge_records(count, order_sn) ==
    /\ last_call' = [op |-> "get_charge_records", count |-> count, order_sn |-> order_sn,
                     result |-> GetRecords(charge_records, charge_order_sns, count, order_sn)]
    /\ QueryFrame

\* CloudESSManager.get_discharge_records
get_discharge_records(count, order_sn) ==
    /\ last_call' = [op |-> "get_discharge_records", count |-> count, order_sn |-> order_sn,
                     result |-> GetRecords(discharge_records, discharge_order_sns, count,
                                           order_sn)]
    /\ QueryFrame

(***************************************************************************)
(* Inputs                                                                  *)
(***************************************************************************)
\* the topic the station publishes a category on (derived scheme)
StationTopic(mt) ==
    product_code \o Slash \o device_code \o Slash \o S2M \o Slash \o MessageTypeValue(mt)

Envelope(header, body) == [header |-> header, dataBody |-> body]

\* event headers: without an index, with index 0, with another index
EventHeader(function, index) ==
    IF index = None THEN [function |-> function, timeStamp |-> "t"]
    ELSE [function |-> function, timeStamp |-> "t", index |-> Val(index)]

\* charge / discharge record bodies: two order numbers, a repeated order
\* number with other values, no order number, an empty one, and a totalMoney
\* that is not a number
RecordEvents ==
    { Envelope(EventHeader(f, i), b) :
        f \in {"chargeRecord", "dischargeRecord"},
        i \in {None, Some(0)},
        b \in {[orderSn |-> "A", totalMoney |-> Number(5)],
               [orderSn |-> "A", totalMoney |-> Text("5.0")],
               [totalMoney |-> Number(5)]} }
    \cup
    { Envelope(EventHeader(f, Some(7)), b) :
        f \in {"chargeRecord", "dischargeRecord"},
        b \in {[orderSn |-> "A"],
               [orderSn |-> "B", totalMoney |-> Number(7)],
               [orderSn |-> "", totalMoney |-> Number(5)]} }

OtherEvents ==
    { Envelope(EventHeader("faultRecord", i), [orderSn |-> "A"]) :
        i \in {None, Some(0), Some(7)} }
    \cup
    { Envelope(EventHeader("otherEvent", Some(7)), [orderSn |-> "B"]),
      Envelope([index |-> 7], EmptyDict) }

EventMessages ==
    { [topic |-> StationTopic("EVENT"), payload |-> p] : p \in RecordEvents \cup OtherEvents }

\* state bodies: two different keys, so that replacing differs from merging
StateFunctions == {"pcsInfo", "pcsState", "batInfo", "batState", "emState", "essState"}

StateMessages ==
    { [topic |-> StationTopic("STATE"), payload |-> Envelope([function |-> f], [P |-> 12])] :
        f \in StateFunctions \cup {"otherState"} }
    \cup
    { [topic |-> StationTopic("STATE"), payload |-> Envelope([function |-> f], [Q |-> 3])] :
        f \in {"pcsState", "essState"} }
    \cup
    { [topic |-> StationTopic("STATE"), payload |-> [header |-> [function |-> "pcsState"]]],
      [topic |-> StationTopic("STATE"), payload |-> Envelope(EmptyDict, [P |-> 12])],
      [topic |-> StationTopic("STATE"), payload |-> BadJson] }

\* heartbeat texts: well formed, carrying the station's clock, or malformed
HeartbeatTimes == {0, 2}

HeartbeatMessages ==
    { [topic |-> StationTopic("KEEPALIVE"), payload |-> strftime(t)] : t \in HeartbeatTimes }
    \cup
    { [topic |-> StationTopic("KEEPALIVE"), payload |-> [text |-> "2024/01/01"]] }

\* responses: to each index a command may have, to none, and without an index
ResponseMessages ==
    { [topic |-> StationTopic("RESPONSE"),
       payload |-> Envelope([index |-> i], [message |-> m])] :
        i \in 2..(MaxCommands + 2), m \in {"ok"} }
    \cup
    { [topic |-> StationTopic("RESPONSE"), payload |-> Envelope(EmptyDict, [message |-> "ok"])],
      [topic |-> StationTopic("RESPONSE"), payload |-> BadJson] }

\* a list of n entries
ListOf(n) == [i \in 1..n |-> i]

\* segment counts of rate-model requests: accepted and rejected ones
SegmentCounts ==
    { <<1, 1>>, <<MaxSegments, MaxSegments>>,
      <<5, 4>>, <<0, 0>>, <<MaxSegments + 1, MaxSegments + 1>> }

(***************************************************************************)
(* Specifications                                                          *)
(***************************************************************************)
\* the session lifecycle: the caller connects and disconnects, the broker
\* acknowledges
Lifecycle ==
    \/ connect
    \/ \E rc \in {0, 5} : _on_connect(rc)
    \/ disconnect

\* a caller that connects once
ConnectOnce ==
    \/ ~loop_running /\ connect
    \/ _on_connect(0)

\* the two operations that publish requests, as a caller may use them
Requests ==
    \/ \E ct \in {"OTA_UPGRADE", "POWER_CONTROL"} : send_command(ct, [type |-> 1])
    \/ \E c \in SegmentCounts, f \in {"rateModeSetReq"} :
           send_rate_model_set("m1", 1, "2024-01-01", ListOf(c[1]), ListOf(c[2]), f)

\* the wrappers of send_command, with the arguments the front end passes
Wrappers ==
    \/ send_charge_start
    \/ send_discharge_start
    \/ send_shutdown_command
    \/ send_chgSocSet(device_code, 1, 1, 1, 100)
    \/ send_dischgSocSet(device_code, 1, 2, 1, 100)
    \/ send_charge_power_adjust(50, "-", 1, 1, 1)
    \/ send_discharge_power_adjust(50, "-", 1, 1, 1)

\* requests and their responses
Next ==
    \/ Lifecycle
    \/ Requests
    \/ \E msg \in ResponseMessages : _on_message(msg)

Spec == Init /\ [][Next]_vars

\* events and records
NextEvents ==
    \/ ConnectOnce
    \/ \E msg \in EventMessages : Len(event_logs) < MaxEvents /\ _on_message(msg)

SpecEvents == Init /\ [][NextEvents]_vars

\* heartbeats and the clock
NextLive ==
    \/ Lifecycle
    \/ Tick(MaxNow)
    \/ \E msg \in HeartbeatMessages : _on_message(msg)

SpecLive == Init /\ [][NextLive]_vars

\* state snapshots
NextState ==
    \/ ConnectOnce
    \/ Tick(MaxStateNow)
    \/ \E msg \in StateMessages : _on_message(msg)

SpecState == Init /\ [][NextState]_vars

\* overrides a caller sets: for pairs the table holds, for a category the
\* direction has no entry for, and for a direction the table does not have
ManualTopicSettings ==
    { <<"KEEPALIVE", "subscribe", <<"custom">> \o Slash \o MessageTypeValue("KEEPALIVE")>>,
      <<"CONFIRM", "publish", <<"custom">> \o Slash \o MessageTypeValue("CONFIRM")>>,
      <<"CONFIRM", "subscribe", <<"custom">> \o Slash \o MessageTypeValue("CONFIRM")>>,
      <<"REQUEST", "both", <<"custom">> \o Slash \o MessageTypeValue("REQUEST")>> }

\* a heartbeat on any topic the session is subscribed to
TopicBeats == { [topic |-> t, payload |-> strftime(0)] : t \in subscribed }

\* topic modes and overrides
NextTopics ==
    \/ Lifecycle
    \/ \E b \in BOOLEAN : toggle_topic_mode(b)
    \/ \E a \in ManualTopicSettings : set_manual_topic(a[1], a[2], a[3])
    \/ \E msg \in TopicBeats : last_heartbeat = None /\ _on_message(msg)

SpecTopics == Init /\ [][NextTopics]_vars

\* a message of any kind on any topic the session is subscribed to
AnyTopicMessages ==
    { [topic |-> t, payload |-> p] :
        t \in subscribed,
        p \in { strftime(0),
                [text |-> "2024/01/01"],
                Unpadded(0),
                Envelope(EventHeader("chargeRecord", Some(7)),
                         [orderSn |-> "A", totalMoney |-> Number(5)]),
                Envelope([function |-> "pcsState", index |-> 2], [P |-> 12]),
                BadJson } }

\* topics that match no category: the topics of the other mode stay
\* subscribed after a mode switch, and an override need not hold a token
NextUnmatched ==
    \/ ConnectOnce
    \/ \E b \in BOOLEAN : toggle_topic_mode(b)
    \/ set_manual_topic("STATE", "subscribe", <<"custom", "/", "alive">>)
    \/ \E msg \in AnyTopicMessages :
           Len(event_logs) < MaxUnmatchedEvents /\ _on_message(msg)

SpecUnmatched == Init /\ [][NextUnmatched]_vars

\* one message of each kind on the station's topics, and a heartbeat on the
\* built-in keepalive override
SessionMessages ==
    { [topic |-> StationTopic("KEEPALIVE"), payload |-> strftime(0)],
      [topic |-> StationTopic("KEEPALIVE"), payload |-> [text |-> "2024/01/01"]],
      [topic |-> ManualTopic(S2M, "KEEPALIVE"), payload |-> strftime(0)],
      [topic |-> StationTopic("STATE"),
       payload |-> Envelope([function |-> "pcsState"], [P |-> 12])],
      [topic |-> StationTopic("EVENT"),
       payload |-> Envelope(EventHeader("faultRecord", Some(7)), [orderSn |-> "A"])],
      [topic |-> StationTopic("RESPONSE"),
       payload |-> Envelope([index |-> 2], [message |-> "ok"])] }

\* a whole session: every kind of operation, each a bounded number of times
NextSession ==
    \/ Lifecycle
    \/ \E msg \in SessionMessages : Len(event_logs) < MaxSessionEvents /\ _on_message(msg)
    \/ message_index < 2 /\ send_command("POWER_CONTROL", [type |-> 1])
    \/ \E b \in BOOLEAN : toggle_topic_mode(b)
    \/ get_charge_records(10, None)

SpecSession == Init /\ [][NextSession]_vars

\* every command-issuing operation; a connected session sends one command
CommandCalls ==
    /\ connected => message_index < 2
    /\ \/ send_command("POWER_CONTROL", [type |-> 1])
       \/ send_rate_model_set("m1", 1, "2024-01-01", ListOf(1), ListOf(1), "rateModeSetReq")
       \/ Wrappers

\* a session that is connected, used and disconnected
NextDisconnect ==
    \/ Lifecycle
    \/ \E msg \in SessionMessages : Len(event_logs) < MaxSessionEvents /\ _on_message(msg)
    \/ CommandCalls

SpecDisconnect == Init /\ [][NextDisconnect]_vars

\* codes a session may be built with: plain ones, and ones that contain the
\* token of a category
ProductCodes == { MainProductCode, <<"response", "7">> }
DeviceCodes == { MainDeviceCode, <<"state", "01">>, <<"dev", "keepalive">> }

InitClassify == \E p \in ProductCodes, d \in DeviceCodes : InitWith(p, d)

\* a message of the category on the topic the session resolves for it
InboundOn(mt) ==
    [topic |-> _get_topic(mt, "subscribe"),
     payload |-> CASE mt = "KEEPALIVE" -> strftime(0)
                   [] mt = "STATE" -> Envelope([function |-> "pcsState"], [P |-> 12])
                   [] mt = "EVENT" -> Envelope(EventHeader("faultRecord", Some(7)), [orderSn |-> "A"])
                   [] mt = "RESPONSE" -> Envelope([index |-> 2], [message |-> "ok"])]

\* classification of the messages of each inbound category
NextClassify ==
    \/ ConnectOnce
    \/ \E b \in BOOLEAN : toggle_topic_mode(b)
    \/ \E i \in 1..Len(SubscribeTypes) :
           /\ Len(event_logs) < MaxClassifyEvents
           /\ _on_message(InboundOn(SubscribeTypes[i]))

SpecClassify == InitClassify /\ [][NextClassify]_vars

\* the supervisory thread: run_cloud_manager of Test_Cloud.py and the session
\* of the station it watches

\* everything run_cloud_manager leaves alone
supervisedVars ==
    <<product_code, device_code, frames, peer_total_money, use_auto_topic, manual_topics, liveVars,
      snapshotVars, event_logs, recordVars, commandVars, published, now>>

\* connect() is entered, lines 147-150 of Grid_Dut_Mng.py: client.connect and
\* loop_start, or client.connect raises and connect() returns False at once
EnterConnect(entered, raised) ==
    /\ \/ /\ loop_running' = TRUE
          /\ connack' = TRUE
          /\ subscribed' = {}
          /\ pc' = entered
       \/ /\ UNCHANGED clientVars
          /\ pc' = raised
    /\ last_call' = [op |-> "connect"]
    /\ UNCHANGED supervisedVars

\* run_cloud_manager, line 16: the first connect() is called
run_cloud_manager_connect ==
    /\ pc = "start"
    /\ EnterConnect("first_connect", "returned")

\* run_cloud_manager, lines 16-18: the first connect() returns self.connected,
\* at once when the flag is true, after its wait of 10 s when it is false;
\* on False the function prints and returns
run_cloud_manager_connected ==
    /\ pc = "first_connect"
    /\ pc' = IF connected THEN "loop" ELSE "returned"
    /\ last_call' = [op |-> "connect", result |-> connected]
    /\ UNCHANGED <<supervisedVars, clientVars>>

\* run_cloud_manager, lines 22-29: one round of the loop up to its sleep or
\* up to the call of connect()
run_cloud_manager_loop ==
    /\ pc = "loop"
    /\ IF check_connection_status
       THEN /\ pc' = "loop"
            /\ last_call' = [op |-> "check_connection_status", result |-> TRUE]
            /\ UNCHANGED <<supervisedVars, clientVars>>
       ELSE EnterConnect("reconnect", "reconnect")

\* run_cloud_manager, lines 28-29: connect() returns, its result is dropped,
\* and the loop sleeps 3 s
run_cloud_manager_reconnected ==
    /\ pc = "reconnect"
    /\ pc' = "loop"
    /\ last_call' = [op |-> "connect", result |-> connected]
    /\ UNCHANGED <<supervisedVars, clientVars>>

\* the steps of the thread of run_cloud_manager
run_cloud_manager ==
    \/ run_cloud_manager_connect
    \/ run_cloud_manager_connected
    \/ run_cloud_manager_loop
    \/ run_cloud_manager_reconnected

NextSupervise ==
    \/ run_cloud_manager
    \/ \E rc \in {0, 5} : _on_connect(rc)
    \/ Tick(MaxNow)
    \/ \E msg \in HeartbeatMessages : _on_message(msg)

\* the thread is never suspended for good: its sleeps and the wait of
\* connect() are bounded
SpecSupervise == Init /\ [][NextSupervise]_vars /\ WF_vars(run_cloud_manager)

\* start and shutdown requests of a connected session, with the clock running
\* between them
MaxOrders == 3
MaxOrderNow == 2

NextOrders ==
    \/ ConnectOnce
    \/ Tick(MaxOrderNow)
    \/ message_index < 1 + MaxOrders /\ send_charge_start
    \/ message_index < 1 + MaxOrders /\ send_discharge_start
    \/ message_index < 1 + MaxOrders /\ send_shutdown_command

SpecOrders == Init /\ [][NextOrders]_vars

\* sessions built with either topic mode, as main() of Test_Cloud.py (False)
\* and main() of Grid_Dut_Mng.py (the default) build them
InitConstruct == \E a \in BOOLEAN : Construct(MainProductCode, MainDeviceCode, a)

SpecConstruct == InitConstruct /\ [][NextTopics]_vars

\* two threads that each call send_command once, with their own arguments
CallerArguments(t) ==
    IF t = "t1" THEN <<"POWER_CONTROL", [type |-> 1]>> ELSE <<"OTA_UPGRADE", [type |-> 2]>>

NextRace ==
    \/ Lifecycle
    \/ \E t \in Threads : send_command_check(t, CallerArguments(t)[1], CallerArguments(t)[2])
    \/ \E t \in Threads : send_command_steps(t)

SpecRace == Init /\ [][NextRace]_vars

\* one thread in a wrapper of send_command while the client's thread connects,
\* is refused or disconnects
WrapperOps ==
    {"send_charge_start", "send_discharge_start", "send_shutdown_command", "send_chgSocSet",
     "send_dischgSocSet", "send_charge_power_adjust", "send_discharge_power_adjust"}

NextAbort ==
    \/ Lifecycle
    \/ \E op \in WrapperOps : wrapper_check("t1", op)
    \/ wrapper_bookkeep("t1")
    \/ wrapper_send("t1")
    \/ send_command_steps("t1")

SpecAbort == Init /\ [][NextAbort]_vars

\* events handled step by step, with the clock running between the steps
MaxStepEvents == 2
MaxStepNow == 1

\* records of two orders, a record whose amount is a text, a record without
\* an order number, a record without an index, and an event that is no record
StepEvents ==
    { [topic |-> StationTopic("EVENT"), payload |-> p] :
        p \in { Envelope(EventHeader("chargeRecord", Some(0)),
                         [orderSn |-> "A", totalMoney |-> Number(5)]),
                Envelope(EventHeader("chargeRecord", Some(7)),
                         [orderSn |-> "B", totalMoney |-> Number(7)]),
                Envelope(EventHeader("dischargeRecord", Some(7)),
                         [orderSn |-> "A", totalMoney |-> Text("5.0")]),
                Envelope(EventHeader("dischargeRecord", None), [orderSn |-> "B"]),
                Envelope(EventHeader("chargeRecord", Some(7)), [totalMoney |-> Number(5)]),
                Envelope(EventHeader("faultRecord", Some(7)), [orderSn |-> "A"]) } }

NextSteps ==
    \/ ConnectOnce
    \/ Tick(MaxStepNow)
    \/ \E msg \in StepEvents : Len(event_logs) < MaxStepEvents /\ event_receive(msg)
    \/ event_steps

SpecSteps == Init /\ [][NextSteps]_vars

\* a thread that sends commands one after the other while the client's
\* thread delivers responses
MaxAnswers == 2

NextAnswer ==
    \/ ConnectOnce
    \/ \E ct \in {"POWER_CONTROL", "OTA_UPGRADE"} :
           message_index < 1 + MaxAnswers /\ send_command_check("t1", ct, [type |-> 1])
    \/ send_command_steps("t1")
    \/ call_return("t1")
    \/ \E msg \in ResponseMessages : _on_message(msg)

SpecAnswer == Init /\ [][NextAnswer]_vars

\* two sessions of one process that receive record events in any order
MaxPeerEvents == 2
MaxPeerTotal == 12

NextSessions ==
    \/ ConnectOnce
    \/ \E msg \in StepEvents : Len(event_logs) < MaxPeerEvents /\ _on_message(msg)
    \/ \E msg \in StepEvents :
           LoadTotal(peer_total_money) < MaxPeerTotal /\ peer_process_record(msg.payload)

SpecSessions == Init /\ [][NextSessions]_vars

\* events of every function of the confirmation table, of another function
\* and of none, each with an index
ConfirmEvents ==
    { [topic |-> StationTopic("EVENT"),
       payload |-> Envelope(EventHeader(f, Some(4)), [orderSn |-> "A", totalMoney |-> Number(5)])] :
        f \in {"chargeEvent", "dischargeEvent", "faultRecord", "chargeRecord",
               "dischargeRecord", "otherEvent"} }
    \cup
    { [topic |-> StationTopic("EVENT"),
       payload |-> Envelope([index |-> 4, timeStamp |-> "t"], [orderSn |-> "A"])] }

\* confirmations
NextConfirm ==
    \/ ConnectOnce
    \/ \E msg \in ConfirmEvents : Len(event_logs) < MaxConfirms /\ _on_message(msg)

SpecConfirm == Init /\ [][NextConfirm]_vars

\* record events for the queries: three order numbers, one of them twice
QueryEvents ==
    { [topic |-> StationTopic("EVENT"), payload |-> Envelope(EventHeader(f, None), b)] :
        f \in {"chargeRecord", "dischargeRecord"},
        b \in {[orderSn |-> "A", totalMoney |-> Number(5)],
               [orderSn |-> "A", totalMoney |-> Number(6)],
               [orderSn |-> "B", totalMoney |-> Number(7)],
               [orderSn |-> "C", totalMoney |-> Number(8)]} }

\* the arguments of a query: counts without a filter, and filters
QueryArguments ==
    { <<count, None>> : count \in {0, 1, 2, 10} }
    \cup { <<10, order_sn>> : order_sn \in {Some("A"), Some("D"), Some("")} }

\* records and their queries
NextQuery ==
    \/ ConnectOnce
    \/ \E msg \in QueryEvents : Len(event_logs) < MaxQueryEvents /\ _on_message(msg)
    \/ \E a \in QueryArguments : get_charge_records(a[1], a[2])
    \/ \E a \in QueryArguments : get_discharge_records(a[1], a[2])

SpecQuery == Init /\ [][NextQuery]_vars

\* the event log at its size limit: a station that numbers its events and
\* sends the next one once the previous one is confirmed
LedgerMessage(i) ==
    [topic |-> StationTopic("EVENT"),
     payload |-> Envelope([function |-> "faultRecord", index |-> i], EmptyDict)]

NextLedger ==
    \/ ConnectOnce
    \/ \E i \in 0..(MaxLedgerEvents - 1) :
           /\ Len(published) = i
           /\ _on_message(LedgerMessage(i))

SpecLedger == Init /\ [][NextLedger]_vars

(***************************************************************************)
(* Properties                                                              *)
(***************************************************************************)
\* the step runs the operation op: every operation records itself in
\* last_call; the steps that leave last_call alone are the clock's and those
\* of a thread inside a call
Ran(op) == last_call'.op = op /\ now' = now /\ frames' = frames

\* the step handles an event message: the event is appended to event_logs
EventStep == Ran("_on_message") /\ event_logs' # event_logs

\* the event an EventStep has processed
ProcessedEvent == event_logs'[Len(event_logs')]

\* C1: every processed event whose header carries an index (index 0 included)
\* publishes exactly one confirmation, on the confirm topic, with that index
\* and the orderSn of the event's dataBody, whatever its function and body.
C1_EveryIndexedEventConfirmed ==
    [][ (EventStep /\ "index" \in DOMAIN ProcessedEvent.header) =>
            /\ Len(published') = Len(published) + 1
            /\ SubSeq(published', 1, Len(published)) = published
            /\ LET confirmation == published'[Len(published')]
               IN  /\ confirmation.topic = _get_topic("CONFIRM", "publish")
                   /\ confirmation.payload.header.index = ProcessedEvent.header.index
                   /\ confirmation.payload.dataBody.orderSn
                          = DictGet(ProcessedEvent.data, "orderSn") ]_vars

\* the record events processed so far that carry an order identifier, oldest
\* first (event_logs holds every event while it is below its size limit)
RecordEventsOf(function) ==
    SelectSeq(event_logs,
              LAMBDA e : e.function = Some(function) /\ Truthy(DictGet(e.data, "orderSn")))

\* the place of the first event of evs with order identifier S
FirstArrival(evs, S) ==
    CHOOSE i \in 1..Len(evs) :
        evs[i].data.orderSn = S /\ \A j \in 1..(i - 1) : evs[j].data.orderSn # S

\* the last event of evs with order identifier S
LatestEvent(evs, S) ==
    evs[CHOOSE i \in 1..Len(evs) :
            evs[i].data.orderSn = S /\ \A j \in (i + 1)..Len(evs) : evs[j].data.orderSn # S]

\* the index list and the record table are those of the events evs: every
\* order identifier of evs is once in order_sns, the identifiers stand in the
\* order of their first arrival, and the record of each has the values of
\* the latest event that carried it
RecordsMatch(evs, order_sns, records, amount_default) ==
    LET ids == { evs[i].data.orderSn : i \in 1..Len(evs) }
    IN  /\ \A S \in ids : Cardinality({ k \in 1..Len(order_sns) : order_sns[k] = S }) = 1
        /\ \A k \in 1..Len(order_sns) :
               /\ order_sns[k] \in ids
               /\ k = Cardinality({ T \in ids :
                                      FirstArrival(evs, T) <= FirstArrival(evs, order_sns[k]) })
        /\ DOMAIN records = ids
        /\ \A S \in ids :
               LET data == LatestEvent(evs, S).data
               IN  /\ records[S].order_sn = S
                   /\ records[S].total_money = DictGetOr(data, "totalMoney", Number(0))
                   /\ records[S].electAmount = IF "electAmount" \in DOMAIN data
                                               THEN Some(data.electAmount)
                                               ELSE amount_default
                   /\ records[S].start_time = DictGet(data, "startTime")
                   /\ records[S].stop_time = DictGet(data, "stopTime")

\* C2: after any sequence of chargeRecord (dischargeRecord) events, every
\* order identifier that appeared in one of them is exactly once in
\* charge_order_sns (discharge_order_sns), at the place of its first arrival,
\* and its record holds the values of the latest event that carried it.
C2_RecordsUpserted ==
    Len(event_logs) < LogLimit =>
        /\ RecordsMatch(RecordEventsOf("chargeRecord"), charge_order_sns,
                        charge_records, Some(Number(0)))
        /\ RecordsMatch(RecordEventsOf("dischargeRecord"), discharge_order_sns,
                        discharge_records, None)

\* A arrived, then B, then A again with other values
C2_Witness ==
    LET evs == RecordEventsOf("chargeRecord")
    IN  /\ Len(evs) = 3
        /\ evs[1].data.orderSn = "A"
        /\ evs[2].data.orderSn = "B"
        /\ evs[3].data.orderSn = "A"
        /\ "totalMoney" \notin DOMAIN evs[1].data
        /\ "totalMoney" \in DOMAIN evs[3].data
        /\ charge_order_sns = <<"A", "B">>

\* C3: after n events event_logs holds exactly the last min(n, 1000) of them
\* in receipt order, and never more than 1000. (Under SpecLedger the n-th
\* event carries index n - 1 and each event is confirmed once, so n is the
\* number of confirmations published.)
C3_LedgerKeepsLatest ==
    LET n == Len(published)
        kept == IF n < 1000 THEN n ELSE 1000
    IN  /\ Len(event_logs) = kept
        /\ \A k \in 1..Len(event_logs) : event_logs[k].header.index = (n - kept) + k - 1

\* 1001 events were received: the first one is gone
C3_Witness ==
    /\ Len(published) = 1001
    /\ Len(event_logs) = 1000
    /\ event_logs[1].header.index = 1
    /\ event_logs[1000].header.index = 1000

\* C4 as stated: with a last-seen time, check_connection_status() is false
\* when now - last_heartbeat exceeds connection_timeout and true otherwise
\* (the boundary included).
C4_LiveIffWithinTimeout ==
    last_heartbeat # None =>
        (check_connection_status <=> now - Val(last_heartbeat) <= 120)

\* C4, amended: with a last-seen time, check_connection_status() is false
\* when now - last_heartbeat exceeds connection_timeout, and it is true when
\* the connectivity flag is true and now - last_heartbeat is at most
\* connection_timeout.
C4_LiveWithinTimeoutWhenConnected ==
    last_heartbeat # None =>
        /\ now - Val(last_heartbeat) > 120 => ~check_connection_status
        /\ (connected /\ now - Val(last_heartbeat) <= 120) => check_connection_status

\* connected, and the last heartbeat is exactly connection_timeout old
C4_Witness ==
    /\ connected
    /\ last_heartbeat # None
    /\ now - Val(last_heartbeat) = 120
    /\ check_connection_status

\* C5: send_command while the connectivity flag is false returns -1,
\* publishes nothing, adds no pending command and keeps message_index.
C5_SendCommandDisconnected ==
    [][ (Ran("send_command") /\ ~connected) =>
            /\ last_call'.result = -1
            /\ published' = published
            /\ pending_commands' = pending_commands
            /\ message_index' = message_index ]_vars

\* send_command was called while disconnected
C5_Witness ==
    /\ last_call.op = "send_command"
    /\ ~connected
    /\ last_call.result = -1

\* the six snapshot slots by attribute name
Snapshots ==
    [pcs_info |-> pcs_info, pcs_state |-> pcs_state, bat_info |-> bat_info,
     bat_state |-> bat_state, em_state |-> em_state, ess_state |-> ess_state]

\* the slot a state function identifier names
SlotOf ==
    [pcsInfo |-> "pcs_info", pcsState |-> "pcs_state", batInfo |-> "bat_info",
     batState |-> "bat_state", emState |-> "em_state", essState |-> "ess_state"]

\* the step handles the decoded state message payload
StateStep(payload) ==
    /\ Ran("_on_message")
    /\ last_call'.msg.topic = _get_topic("STATE", "subscribe")
    /\ last_call'.msg.payload = payload
    /\ payload # BadJson

\* C6: a state message whose function is one of the six identifiers replaces
\* exactly the corresponding slot with its dataBody (no merge), leaves the
\* other five slots unchanged and sets last-seen to the receipt time.
C6_StateReplacesSlot ==
    [][ \A m \in StateMessages :
          (/\ StateStep(m.payload)
           /\ "function" \in DOMAIN DictGetOr(m.payload, "header", EmptyDict)
           /\ m.payload.header.function \in DOMAIN SlotOf) =>
              /\ Snapshots' = [Snapshots EXCEPT ![SlotOf[m.payload.header.function]] =
                                   DictGetOr(m.payload, "dataBody", EmptyDict)]
              /\ last_heartbeat' = Some(now) ]_vars

\* pcsState was replaced by a body with another key, later than another slot
C6_Witness ==
    /\ last_call.op = "_on_message"
    /\ last_call.msg.payload = Envelope([function |-> "pcsState"], [Q |-> 3])
    /\ pcs_state = [Q |-> 3]
    /\ ess_state = [P |-> 12]
    /\ now > 0
    /\ last_heartbeat = Some(now)

\* the step handles the decoded response payload, whose header index is that
\* of a pending command
ResponseStep(payload) ==
    /\ Ran("_on_message")
    /\ last_call'.msg.topic = _get_topic("RESPONSE", "subscribe")
    /\ last_call'.msg.payload = payload
    /\ payload # BadJson
    /\ "index" \in DOMAIN payload.header
    /\ payload.header.index \in DOMAIN pending_commands

\* C7 as stated: a response whose header index is that of a command sent by
\* send_command completes the command's entry and stores the response's
\* dataBody as the entry's response.
C7_ResponseStoresBody ==
    [][ \A m \in ResponseMessages :
          ResponseStep(m.payload) =>
              /\ pending_commands'[m.payload.header.index].status = "completed"
              /\ pending_commands'[m.payload.header.index].response
                     = Some(m.payload.dataBody) ]_vars

\* C7, amended: such a response completes the command's entry and stores the
\* whole response envelope (header and dataBody) as the entry's response.
C7_ResponseStoresEnvelope ==
    [][ \A m \in ResponseMessages :
          ResponseStep(m.payload) =>
              /\ pending_commands'[m.payload.header.index].status = "completed"
              /\ pending_commands'[m.payload.header.index].response = Some(m.payload) ]_vars

\* the response to a command that send_command returned the index of has
\* just been handled
C7_Witness ==
    /\ last_call.op = "_on_message"
    /\ last_call.msg.payload # BadJson
    /\ "index" \in DOMAIN last_call.msg.payload.header
    /\ last_call.msg.payload.header.index \in DOMAIN pending_commands
    /\ pending_commands[last_call.msg.payload.header.index].status = "completed"

\* C8: send_rate_model_set with lists of different lengths, or of a length
\* outside [1, 12], returns -1, publishes nothing and leaves message_index,
\* command_history and pending_commands unchanged.
C8_RateModelRejected ==
    [][ (/\ Ran("send_rate_model_set")
         /\ \/ last_call'.rates # last_call'.details
            \/ last_call'.rates < 1
            \/ last_call'.rates > 12) =>
            /\ last_call'.result = -1
            /\ published' = published
            /\ message_index' = message_index
            /\ command_history' = command_history
            /\ pending_commands' = pending_commands ]_vars

\* a connected session has rejected 5 rates with 4 details
C8_Witness ==
    /\ last_call.op = "send_rate_model_set"
    /\ connected
    /\ last_call.rates = 5
    /\ last_call.details = 4
    /\ last_call.result = -1

\* the requests published so far, oldest first
Requests_published ==
    SelectSeq(published, LAMBDA m : m.topic = _get_topic("REQUEST", "publish"))

\* C9: the header index of each published request is strictly greater than
\* that of every request published before it.
C9_RequestIndicesIncrease ==
    \A i, j \in 1..Len(Requests_published) :
        i < j => Requests_published[i].payload.header.index
                     < Requests_published[j].payload.header.index

\* C10: a command-issuing operation that returns an index i has published a
\* request whose header index is i.
C10_ReturnedIndexIsPublished ==
    [][ ((Ran("send_command") \/ Ran("send_rate_model_set")) /\ last_call'.result # -1) =>
            /\ Len(published') = Len(published) + 1
            /\ published'[Len(published')].topic = _get_topic("REQUEST", "publish")
            /\ published'[Len(published')].payload.header.index = last_call'.result ]_vars

\* C11: every request published with header index i has an entry under key i
\* in pending_commands that was created for that same command (its function
\* and its parameters), so that a response with index i is attributed to it.
C11_PublishedRequestsArePending ==
    \A r \in 1..Len(Requests_published) :
        LET request == Requests_published[r].payload
            i == request.header.index
        IN  /\ i \in DOMAIN pending_commands
            /\ CommandTypeValue(pending_commands[i].type) = request.header.function
            /\ pending_commands[i].params = request.dataBody

\* C12: an entry of pending_commands is never removed and keeps its command;
\* its status changes only in the step that handles a response with the
\* entry's index, and only from pending to completed.
C12_PendingEntriesPersist ==
    [][ \A k \in DOMAIN pending_commands :
          /\ k \in DOMAIN pending_commands'
          /\ pending_commands'[k].type = pending_commands[k].type
          /\ pending_commands'[k].params = pending_commands[k].params
          /\ pending_commands'[k].timestamp = pending_commands[k].timestamp
          /\ pending_commands[k].status = "completed" =>
                 pending_commands'[k].status = "completed"
          /\ pending_commands'[k].status # pending_commands[k].status =>
                 /\ pending_commands[k].status = "pending"
                 /\ pending_commands'[k].status = "completed"
                 /\ Ran("_on_message")
                 /\ last_call'.msg.topic = _get_topic("RESPONSE", "subscribe")
                 /\ last_call'.msg.payload # BadJson
                 /\ DictGet(last_call'.msg.payload.header, "index") = Some(k) ]_vars

\* the session was connected again while the command under index 2 is still
\* pending and the one under index 3 is completed
C12_Witness ==
    /\ last_call = [op |-> "_on_connect", rc |-> 0]
    /\ DOMAIN pending_commands = {2, 3}
    /\ pending_commands[2].status = "pending"
    /\ pending_commands[3].status = "completed"

\* the step handles a decoded response whose header has no index, or an index
\* that is no key of pending_commands
UnmatchedResponseStep ==
    /\ Ran("_on_message")
    /\ last_call'.msg.topic = _get_topic("RESPONSE", "subscribe")
    /\ last_call'.msg.payload # BadJson
    /\ LET msg_index == DictGet(DictGetOr(last_call'.msg.payload, "header", EmptyDict), "index")
       IN  msg_index = None \/ Val(msg_index) \notin DOMAIN pending_commands

\* C13: a response whose header index is absent or matches no pending command
\* changes no session state: pending_commands, message_index, the snapshots,
\* the ledgers, last-seen and the connectivity flag stay as they are and
\* nothing is published.
C13_UnmatchedResponseChangesNothing ==
    [][ UnmatchedResponseStep =>
            UNCHANGED <<commandVars, snapshotVars, event_logs, recordVars, liveVars,
                        published, topicVars>> ]_vars

\* a response with index 5 was handled while the only commands are 2 and 3,
\* both still pending
C13_Witness ==
    /\ last_call.op = "_on_message"
    /\ last_call.msg.payload = Envelope([index |-> 5], [message |-> "ok"])
    /\ DOMAIN pending_commands = {2, 3}
    /\ \A k \in DOMAIN pending_commands : pending_commands[k].status = "pending"

\* the confirmation an event step has published
Confirmation == published'[Len(published')].payload

\* C15: the function of a published confirmation follows from the event's
\* function by the table chargeEvent -> chgEventConf, dischargeEvent ->
\* dischgEventConf, faultRecord -> faultRecordConf, chargeRecord ->
\* chargeRecordConf, dischargeRecord -> dischargeRecordConf, and is "" for
\* any other or absent function; the envelope carries version "1.0",
\* messageType "confirm", result 1 and reason 1.
C15_ConfirmFunctionTable ==
    [][ (EventStep /\ Len(published') = Len(published) + 1) =>
            /\ published'[Len(published')].topic = _get_topic("CONFIRM", "publish")
            /\ Confirmation.header.function =
                   (CASE ProcessedEvent.function = Some("chargeEvent") -> "chgEventConf"
                      [] ProcessedEvent.function = Some("dischargeEvent") -> "dischgEventConf"
                      [] ProcessedEvent.function = Some("faultRecord") -> "faultRecordConf"
                      [] ProcessedEvent.function = Some("chargeRecord") -> "chargeRecordConf"
                      [] ProcessedEvent.function = Some("dischargeRecord") -> "dischargeRecordConf"
                      [] OTHER -> "")
            /\ Confirmation.header.version = "1.0"
            /\ Confirmation.header.messageType = "confirm"
            /\ Confirmation.dataBody.result = 1
            /\ Confirmation.dataBody.reason = 1 ]_vars

\* a chargeEvent, an event of an unknown function and one without a function
\* have been confirmed, in this order
C15_Witness ==
    /\ Len(published) = 3
    /\ Len(event_logs) = 3
    /\ event_logs[1].function = Some("chargeEvent")
    /\ published[1].payload.header.function = "chgEventConf"
    /\ event_logs[2].function = Some("otherEvent")
    /\ published[2].payload.header.function = ""
    /\ event_logs[3].function = None
    /\ published[3].payload.header.function = ""

\* the record table a record event of the given function is stored in
RecordsOf(function) ==
    IF function = Some("chargeRecord") THEN charge_records' ELSE discharge_records'

\* C16: an event whose header has no index publishes nothing, while the event
\* is appended to event_logs, a charge / discharge record in it is upserted
\* and last-seen is refreshed.
C16_UnindexedEventNotConfirmed ==
    [][ (/\ Ran("_on_message")
         /\ last_call'.msg.topic = _get_topic("EVENT", "subscribe")
         /\ last_call'.msg.payload # BadJson
         /\ "index" \notin DOMAIN last_call'.msg.payload.header) =>
            LET payload == last_call'.msg.payload
                function == DictGet(payload.header, "function")
                order_sn == DictGet(payload.dataBody, "orderSn")
            IN  /\ published' = published
                /\ Len(event_logs') = Len(event_logs) + 1
                /\ ProcessedEvent.header = payload.header
                /\ ProcessedEvent.data = payload.dataBody
                /\ (function \in {Some("chargeRecord"), Some("dischargeRecord")}
                        /\ Truthy(order_sn)) =>
                       /\ Val(order_sn) \in DOMAIN RecordsOf(function)
                       /\ RecordsOf(function)[Val(order_sn)].total_money
                              = DictGetOr(payload.dataBody, "totalMoney", Number(0))
                /\ last_heartbeat' = Some(now) ]_vars

\* the result a query is said to have: with a filter the record stored under
\* exactly that key; without one the min(count, n) records inserted last,
\* the last one first
QueryResult(records, order_sns, count, order_sn) ==
    IF order_sn # None
    THEN (IF Val(order_sn) \in DOMAIN records THEN <<records[Val(order_sn)]>> ELSE <<>>)
    ELSE LET n == Len(order_sns)
             m == IF count < n THEN count ELSE n
         IN  [k \in 1..m |-> records[order_sns[n - k + 1]]]

\* C17: get_charge_records / get_discharge_records return, with a filter,
\* the single record stored under that key or nothing, and without a filter,
\* for every count >= 0, the min(count, n) most recently inserted records,
\* most recent first (none for count = 0).
C17_QueriesReturnMostRecent ==
    /\ last_call.op = "get_charge_records" =>
           last_call.result = QueryResult(charge_records, charge_order_sns,
                                          last_call.count, last_call.order_sn)
    /\ last_call.op = "get_discharge_records" =>
           last_call.result = QueryResult(discharge_records, discharge_order_sns,
                                          last_call.count, last_call.order_sn)

\* the cost an event carries: its totalMoney, 0 when absent (a totalMoney
\* that is not a number has no amount; it counts as 0)
CostOf(event) ==
    LET amount == DictGetOr(event.data, "totalMoney", Number(0))
    IN  IF IsNumber(amount) THEN amount.num ELSE 0

\* the sum of the costs of the events evs
RECURSIVE SumOfCosts(_)
SumOfCosts(evs) == IF evs = <<>> THEN 0 ELSE CostOf(Head(evs)) + SumOfCosts(Tail(evs))

\* the total the record events processed so far add up to
ExpectedTotal ==
    SumOfCosts(RecordEventsOf("chargeRecord")) + SumOfCosts(RecordEventsOf("dischargeRecord"))

\* C18: total_money is the sum of totalMoney (0 when absent) over every
\* processed chargeRecord and dischargeRecord event that carried an order
\* identifier, an event counted each time it is processed; and only the
\* processing of such an event changes total_money.
C18_TotalIsSumOfRecordCosts ==
    [][ /\ Len(event_logs') < LogLimit => total_money' = ExpectedTotal'
        /\ total_money' # total_money =>
               /\ EventStep
               /\ ProcessedEvent.function \in {Some("chargeRecord"), Some("dischargeRecord")}
               /\ Truthy(DictGet(ProcessedEvent.data, "orderSn")) ]_vars

\* the order identifier A was processed twice with cost 5: one entry, total 10
C18_Witness ==
    LET evs == RecordEventsOf("chargeRecord")
    IN  /\ Len(event_logs) = 2
        /\ Len(evs) = 2
        /\ evs[1].data = [orderSn |-> "A", totalMoney |-> Number(5)]
        /\ evs[2].data = [orderSn |-> "A", totalMoney |-> Number(5)]
        /\ charge_order_sns = <<"A">>
        /\ total_money = 10

\* the six categories and the two directions topics are resolved for
Categories == { MessageType[i] : i \in 1..Len(MessageType) }
Directions == {"subscribe", "publish"}

\* C19: _get_topic(category, direction) is, in derived mode,
\* productCode/deviceCode/S2M/token for subscribe and
\* productCode/deviceCode/M2S/token otherwise; in explicit mode the override
\* stored for (direction, category), or default/token when the pair has none.
C19_TopicResolution ==
    \A mt \in Categories, dir \in Directions :
        _get_topic(mt, dir) =
            IF use_auto_topic
            THEN <<"100100003", "/", "0000014", "/",
                   IF dir = "subscribe" THEN "S2M" ELSE "M2S", "/">> \o MessageTypeValue(mt)
            ELSE IF mt \in DOMAIN manual_topics[dir]
                 THEN manual_topics[dir][mt]
                 ELSE <<"default", "/">> \o MessageTypeValue(mt)

\* explicit mode, with an override set by the caller: the overridden pair, a
\* pair with the built-in override and a pair without one
C19_Witness ==
    /\ ~use_auto_topic
    /\ _get_topic("KEEPALIVE", "subscribe") = <<"custom", "/", "keepalive">>
    /\ _get_topic("REQUEST", "publish") = <<"100100003", "/", "9999998", "/", "M2S", "/", "request">>
    /\ _get_topic("CONFIRM", "subscribe") = <<"default", "/", "confirm">>

\* C20: after toggle_topic_mode has changed the mode of a running session,
\* the topics subscribed are exactly the four subscribe topics of the new
\* mode, whether or not the connectivity flag was true.
C20_ToggleResubscribes ==
    [][ (Ran("toggle_topic_mode") /\ use_auto_topic' # use_auto_topic /\ loop_running) =>
            subscribed' = SubscribeTopics' ]_vars

\* the step handles a heartbeat of the expected format
ValidHeartbeatStep ==
    /\ Ran("_on_message")
    /\ Contains(MessageTypeValue("KEEPALIVE"), last_call'.msg.topic)
    /\ last_call'.msg.payload \in { strftime(t) : t \in 0..MaxNow }

\* the step handles a state message
StateMessageStep ==
    /\ Ran("_on_message")
    /\ Contains(MessageTypeValue("STATE"), last_call'.msg.topic)

\* C14: the connectivity flag turns true only in a step that receives a
\* connect acknowledgment with rc = 0 or processes a heartbeat of the
\* expected format (or a state message); no failed connect, event, response,
\* command, topic change or query turns it true.
C14_ConnectedOnlyByAckOrHeartbeat ==
    [][ (~connected /\ connected') =>
            \/ Ran("_on_connect") /\ last_call'.rc = 0
            \/ ValidHeartbeatStep
            \/ StateMessageStep ]_vars

\* the flag is true by an acknowledgment with rc = 0, in a session that has
\* seen a heartbeat, a command and a topic change before
C14_Witness ==
    /\ connected
    /\ last_call = [op |-> "_on_connect", rc |-> 0]
    /\ last_heartbeat_str # None
    /\ message_index = 2
    /\ ~use_auto_topic

\* the (direction, category) pairs an override can be set for
RecognizedPairs ==
    { <<"subscribe", mt>> : mt \in {"KEEPALIVE", "STATE", "EVENT", "RESPONSE"} }
    \cup { <<"publish", mt>> : mt \in {"CONFIRM", "REQUEST"} }

\* the step calls set_manual_topic for a pair outside the recognized set
InvalidOverrideStep ==
    /\ Ran("set_manual_topic")
    /\ <<last_call'.direction, last_call'.message_type>> \notin RecognizedPairs

\* everything but the record of the last call is unchanged
SessionUnchanged ==
    UNCHANGED <<topicVars, liveVars, snapshotVars, event_logs, recordVars, commandVars,
                clientVars, published, now>>

\* C21 as stated: set_manual_topic for a pair outside the recognized set
\* changes nothing and hands the caller a report of the failure, that is a
\* result other than the None a successful call returns.
C21_InvalidOverrideReported ==
    [][ InvalidOverrideStep => (SessionUnchanged /\ last_call'.result # None) ]_vars

\* C21, amended: such a call changes nothing and prints the failure; it
\* returns None, as a successful call does.
C21_InvalidOverridePrinted ==
    [][ InvalidOverrideStep =>
            /\ SessionUnchanged
            /\ last_call'.printed = "invalid"
            /\ last_call'.result = None ]_vars

\* in explicit mode an override for (subscribe, confirm) was refused: the
\* pair still resolves to the default topic
C21_Witness ==
    /\ last_call.op = "set_manual_topic"
    /\ last_call.direction = "subscribe"
    /\ last_call.message_type = "CONFIRM"
    /\ last_call.printed = "invalid"
    /\ ~use_auto_topic
    /\ _get_topic("CONFIRM", "subscribe") = <<"default", "/", "confirm">>

CommandOps ==
    {"send_command", "send_rate_model_set", "send_charge_start", "send_discharge_start",
     "send_shutdown_command", "send_chgSocSet", "send_dischgSocSet",
     "send_charge_power_adjust", "send_discharge_power_adjust"}

\* C23: once disconnect() has returned the connectivity flag is false,
\* check_connection_status() is false and every command-issuing operation
\* returns -1, until a connect acknowledgment with rc = 0 is received; and no
\* inbound message is handled while the delivery loop is stopped.
C23_OfflineAfterDisconnect ==
    [][ /\ Ran("disconnect") => (~connected' /\ ~loop_running')
        /\ ~connected' => ~check_connection_status'
        /\ (~connected /\ connected') => (Ran("_on_connect") /\ last_call'.rc = 0)
        /\ (~connected /\ last_call'.op \in CommandOps /\ now' = now) =>
               (last_call'.result = -1 /\ published' = published)
        /\ ~loop_running => ~Ran("_on_message") ]_vars

\* a command was refused after the disconnect of a session that had seen a
\* heartbeat and sent a command
C23_Witness ==
    /\ last_call.op = "send_shutdown_command"
    /\ last_call.result = -1
    /\ ~connected
    /\ ~loop_running
    /\ last_heartbeat # None
    /\ message_index = 2

\* C24: a message delivered on the topic _get_topic(C, subscribe) of an
\* inbound category C is classified as C, in derived and in explicit mode and
\* whatever the product and device code.
C24_ClassifiedAsItsCategory ==
    \A mt \in {"KEEPALIVE", "STATE", "EVENT", "RESPONSE"} :
        Classify(_get_topic(mt, "subscribe")) = Some(mt)

\* the topic matches no category: in derived mode it holds no category token,
\* in explicit mode it equals no subscribe override
MatchesNoCategory(topic) ==
    IF use_auto_topic
    THEN \A token \in {"keepalive", "state", "event", "confirm", "request", "response"} :
             \A k \in 1..Len(topic) : topic[k] # token
    ELSE \A mt \in DOMAIN manual_topics["subscribe"] : manual_topics["subscribe"][mt] # topic

\* C25: a message whose topic matches no category changes no session state
\* and publishes nothing, whatever its payload.
C25_UnmatchedTopicDropped ==
    [][ (Ran("_on_message") /\ MatchesNoCategory(last_call'.msg.topic)) =>
            SessionUnchanged ]_vars

\* in explicit mode an indexed charge record arrived on the derived event
\* topic, still subscribed from before the switch, and was dropped
C25_Witness ==
    /\ ~use_auto_topic
    /\ last_call.op = "_on_message"
    /\ last_call.msg.topic = <<"100100003", "/", "0000014", "/", "S2M", "/", "event">>
    /\ Decodes(last_call.msg.payload)
    /\ "dataBody" \in DOMAIN last_call.msg.payload
    /\ "orderSn" \in DOMAIN last_call.msg.payload.dataBody
    /\ event_logs = <<>>
    /\ published = <<>>
    /\ total_money = 0

\* the payload of the message is malformed for the category of its topic: a
\* heartbeat that is not a time in the format YYYY-MM-DD HH:MM:SS, or a
\* state, event or response payload that is not JSON
Malformed(msg) ==
    LET category == Classify(msg.topic)
    IN  \/ category = Some("KEEPALIVE") /\ "ymdhms" \notin DOMAIN msg.payload
        \/ /\ category \in {Some("STATE"), Some("EVENT"), Some("RESPONSE")}
           /\ \/ msg.payload = BadJson
              \/ "ymdhms" \in DOMAIN msg.payload
              \/ "text" \in DOMAIN msg.payload
              \/ "unpadded" \in DOMAIN msg.payload

\* C26: a malformed payload changes no session state and publishes nothing: a
\* heartbeat in another format keeps last-seen, the last-heartbeat string and
\* the connectivity flag; a state, event or response payload that is not
\* JSON keeps the snapshots, ledgers, record tables, total, pending commands
\* and last-seen; the delivery loop and the subscriptions stay as they are.
C26_MalformedPayloadDropped ==
    [][ (Ran("_on_message") /\ Malformed(last_call'.msg)) => SessionUnchanged ]_vars

\* what holds of C26: a heartbeat payload that strptime rejects, and a state,
\* event or response payload that is not JSON, change nothing
C26_RejectedPayloadDropped ==
    [][ (Ran("_on_message") /\ Malformed(last_call'.msg)
           /\ (Classify(last_call'.msg.topic) = Some("KEEPALIVE")
                  => strptime(last_call'.msg.payload) = None))
        => SessionUnchanged ]_vars

\* C27: every state message and every event message that is received and
\* decoded refreshes last-seen to its receipt time, whatever its function
\* identifier and body.
C27_StateAndEventRefreshLastSeen ==
    [][ ( /\ Ran("_on_message")
          /\ Decodes(last_call'.msg.payload)
          /\ Classify(last_call'.msg.topic) \in {Some("STATE"), Some("EVENT")} )
        => last_heartbeat' = Some(now') ]_vars

\* what holds of C27: a state message whose function is one of the six known
\* identifiers refreshes last-seen to its receipt time
C27_KnownStateRefreshesLastSeen ==
    [][ ( /\ Ran("_on_message")
          /\ Decodes(last_call'.msg.payload)
          /\ Classify(last_call'.msg.topic) = Some("STATE")
          /\ "header" \in DOMAIN last_call'.msg.payload
          /\ "function" \in DOMAIN last_call'.msg.payload.header
          /\ last_call'.msg.payload.header.function \in DOMAIN state_mappings )
        => last_heartbeat' = Some(now') ]_vars

\* nothing a heartbeat, state message or event leaves behind is in the session
NothingSeen ==
    /\ last_heartbeat = None
    /\ last_heartbeat_str = None
    /\ event_logs = <<>>
    /\ \A snapshot \in {pcs_info, pcs_state, bat_info, bat_state, em_state, ess_state} :
           snapshot = EmptyDict

\* C28: check_connection_status() is false whenever the connectivity flag is
\* false, whatever last-seen is; and true whenever the flag is true and no
\* heartbeat, state or event message has been seen, however long ago the
\* session connected.
C28_FlagAndGracePeriod ==
    /\ ~connected => ~check_connection_status
    /\ (connected /\ NothingSeen) => check_connection_status

\* connected for longer than the timeout with nothing seen, and reported live
C28_Witness ==
    /\ connected
    /\ NothingSeen
    /\ now > connection_timeout
    /\ check_connection_status

\* the step handles a chargeRecord or dischargeRecord event whose body has no
\* orderSn or an empty one
RecordWithoutOrderSnStep ==
    /\ Ran("_on_message")
    /\ last_call'.msg.topic = _get_topic("EVENT", "subscribe")
    /\ Decodes(last_call'.msg.payload)
    /\ DictGet(last_call'.msg.payload.header, "function")
           \in {Some("chargeRecord"), Some("dischargeRecord")}
    /\ DictGet(last_call'.msg.payload.dataBody, "orderSn") \in {None, Some("")}

\* C29: a chargeRecord or dischargeRecord event whose body has no (or an
\* empty) orderSn is appended to event_logs and, when its header has an
\* index, confirmed with that index, while charge_records, discharge_records,
\* both order-identifier lists and total_money stay as they were.
C29_RecordWithoutOrderSnSkipped ==
    [][ RecordWithoutOrderSnStep =>
            LET payload == last_call'.msg.payload
            IN  /\ Len(event_logs') = Len(event_logs) + 1
                /\ SubSeq(event_logs', 1, Len(event_logs)) = event_logs
                /\ ProcessedEvent.header = payload.header
                /\ ProcessedEvent.data = payload.dataBody
                /\ "index" \in DOMAIN payload.header =>
                       /\ Len(published') = Len(published) + 1
                       /\ SubSeq(published', 1, Len(published)) = published
                       /\ published'[Len(published')].topic = _get_topic("CONFIRM", "publish")
                       /\ Confirmation.header.index = payload.header.index
                /\ UNCHANGED <<charge_records, discharge_records, charge_order_sns,
                               discharge_order_sns, total_money>> ]_vars

\* after a record with order number B, a chargeRecord with an empty orderSn
\* and index 7 is logged and confirmed, and the tables hold B alone
C29_Witness ==
    /\ last_call.op = "_on_message"
    /\ last_call.msg.payload =
           Envelope(EventHeader("chargeRecord", Some(7)), [orderSn |-> "", totalMoney |-> Number(5)])
    /\ Len(event_logs) = 2
    /\ event_logs[2].data = last_call.msg.payload.dataBody
    /\ published # <<>>
    /\ published[Len(published)].payload.header.index = 7
    /\ published[Len(published)].payload.dataBody.orderSn = Some("")
    /\ charge_order_sns = <<"B">>
    /\ total_money = 7

\* a connect() attempt of run_cloud_manager is under way
Attempting == pc \in {"first_connect", "reconnect"}

\* C30: under fair scheduling of run_cloud_manager, whenever the session is
\* not connected, the first attempt having failed included, a new connect()
\* attempt is eventually made (unless connectivity returns before), and so
\* again after every attempt that leaves connectivity false.
C30_ReconnectsWhileOffline == ~connected ~> (connected \/ Attempting)

\* what holds of C30: once the first connect() has succeeded, a session that
\* is not connected sees a new attempt
C30_LoopReconnectsWhileOffline ==
    (~connected /\ pc \in {"loop", "reconnect"}) ~> (connected \/ pc = "reconnect")

\* the published requests that start a charge or a discharge, before place i
StartsBefore(i) == { j \in 1..(i - 1) : published[j].payload.dataBody.type \in {1, 2} }

\* the orderSn of the start request published last before place i, the empty
\* string if there is none
LastStartOrderSn(i) ==
    IF StartsBefore(i) = {} THEN <<>>
    ELSE published[CHOOSE j \in StartsBefore(i) : \A k \in StartsBefore(i) : k <= j]
             .payload.dataBody.orderSn

\* C31: the orderSn of a shutdown request (type 3) is the orderSn that the
\* most recently published charge-start or discharge-start request of the
\* session carried; a shutdown before any start carries an empty orderSn.
C31_ShutdownCarriesStartOrderSn ==
    \A i \in 1..Len(published) :
        published[i].payload.dataBody.type = 3 =>
            published[i].payload.dataBody.orderSn = LastStartOrderSn(i)

\* what holds of C31: the shutdown carries the start's orderSn behind the
\* prefix '12345678', and an empty orderSn before any start
C31_ShutdownCarriesPrefixedOrderSn ==
    \A i \in 1..Len(published) :
        published[i].payload.dataBody.type = 3 =>
            published[i].payload.dataBody.orderSn =
                (IF StartsBefore(i) = {} THEN <<>> ELSE <<"12345678">> \o LastStartOrderSn(i))

\* C32: a session constructed with use_auto_topic = False resolves every
\* topic from the override table, one constructed with use_auto_topic = True
\* resolves the derived topics: after construction, and until the mode is
\* toggled, the mode in effect is the one the caller selected.
C32_ConstructedModeInEffect ==
    last_call.op = "__init__" =>
        \A direction \in Directions : \A mt \in DOMAIN manual_topics[direction] :
            _get_topic(mt, direction) =
                (IF last_call.use_auto_topic
                 THEN product_code \o Slash \o device_code \o Slash
                          \o (IF direction = "subscribe" THEN S2M ELSE M2S)
                          \o Slash \o MessageTypeValue(mt)
                 ELSE manual_topics[direction][mt])

\* what holds of C32: every constructed session resolves the derived topics
C32_ConstructedDerived ==
    last_call.op = "__init__" =>
        \A direction \in Directions : \A mt \in DOMAIN manual_topics[direction] :
            _get_topic(mt, direction) =
                product_code \o Slash \o device_code \o Slash
                    \o (IF direction = "subscribe" THEN S2M ELSE M2S)
                    \o Slash \o MessageTypeValue(mt)

\* thread t has returned from send_command with a message index
Sent(t) == frames[t].at = "done" /\ frames[t].op = "send_command" /\ frames[t].result # Failure

\* the published requests with header index i
RequestsWithIndex(i) == { k \in 1..Len(published) : published[k].payload.header.index = i }

\* C33: when two threads run send_command on the same session, however their
\* steps interleave, the two calls return different message indices, the two
\* published requests have different header indices, and pending_commands
\* holds an entry for each, with its own caller's command type and parameters.
C33_ConcurrentSendsKeepApart ==
    (Sent("t1") /\ Sent("t2")) =>
        /\ frames["t1"].result # frames["t2"].result
        /\ \A t \in Threads :
               /\ Cardinality(RequestsWithIndex(frames[t].result)) = 1
               /\ frames[t].result \in DOMAIN pending_commands
               /\ pending_commands[frames[t].result].type = frames[t].command_type
               /\ pending_commands[frames[t].result].params = frames[t].params

\* what holds of C33: two calls that returned different indices have each
\* their own request and their own pending entry
C33_DistinctIndicesKeepApart ==
    (Sent("t1") /\ Sent("t2") /\ frames["t1"].result # frames["t2"].result) =>
        \A t \in Threads :
            /\ Cardinality(RequestsWithIndex(frames[t].result)) = 1
            /\ pending_commands[frames[t].result].type = frames[t].command_type
            /\ pending_commands[frames[t].result].params = frames[t].params

\* C34: a wrapper of send_command that returns -1 has appended nothing to
\* command_history and has not changed last_orderSn, however disconnect() or
\* a refused connect acknowledgment on the client's thread interleave with it.
C34_FailedWrapperLeavesNoTrace ==
    (frames["t1"].at = "done" /\ frames["t1"].op \in WrapperOps
        /\ frames["t1"].result = Failure) =>
            /\ command_history = frames["t1"].before.command_history
            /\ last_orderSn = frames["t1"].before.last_orderSn

\* what holds of C34: a wrapper refused by its own connectivity check leaves
\* no trace
C34_RefusedWrapperLeavesNoTrace ==
    (frames["t1"].at = "done" /\ frames["t1"].op \in WrapperOps
        /\ frames["t1"].result = Failure /\ "params" \notin DOMAIN frames["t1"]) =>
            /\ command_history = frames["t1"].before.command_history
            /\ last_orderSn = frames["t1"].before.last_orderSn

\* the entries of an index list
Entries(order_sns) == { order_sns[i] : i \in 1..Len(order_sns) }

\* the record step stands between storing a record and indexing it
BetweenStoreAndIndex == frames[ClientThread].at = "index"

\* C35: in every state a reader on another thread can see, the steps of the
\* record handlers included, every order identifier in charge_order_sns
\* (discharge_order_sns) is a key of charge_records (discharge_records); and
\* outside the record step the keys of each table are the entries of its
\* list, so that the record count of get_status_summary is the list's length.
C35_IndexedOrdersHaveRecords ==
    /\ Entries(charge_order_sns) \subseteq DOMAIN charge_records
    /\ Entries(discharge_order_sns) \subseteq DOMAIN discharge_records
    /\ ~BetweenStoreAndIndex =>
           /\ DOMAIN charge_records = Entries(charge_order_sns)
           /\ DOMAIN discharge_records = Entries(discharge_order_sns)
           /\ Cardinality(DOMAIN charge_records) = Len(charge_order_sns)
           /\ Cardinality(DOMAIN discharge_records) = Len(discharge_order_sns)

\* the record of B is stored and not yet indexed, beside the record of A
C35_Witness ==
    /\ BetweenStoreAndIndex
    /\ DOMAIN charge_records = {"A", "B"}
    /\ charge_order_sns = <<"A">>

\* the step publishes the confirmation of the event the client's thread handles
ConfirmStep == frames[ClientThread].at = "confirm" /\ Len(published') = Len(published) + 1

\* C36: when a confirmation is published for an event with header index i,
\* the event has already been appended to event_logs, and if it is a
\* chargeRecord or dischargeRecord event with order identifier S, the record
\* table already holds S with the values of that event.
C36_ConfirmedEventIsStored ==
    [][ ConfirmStep =>
            LET payload == frames[ClientThread].payload
                logged == event_logs[Len(event_logs)]
                records == IF OnCharge THEN charge_records ELSE discharge_records
            IN  /\ published'[Len(published')].payload.header.index = payload.header.index
                /\ event_logs # <<>>
                /\ logged.header = payload.header
                /\ logged.data = payload.dataBody
                /\ HasRecord(payload) =>
                       /\ payload.dataBody.orderSn \in DOMAIN records
                       /\ records[payload.dataBody.orderSn].order_sn = payload.dataBody.orderSn
                       /\ records[payload.dataBody.orderSn].total_money
                              = DictGetOr(payload.dataBody, "totalMoney", Number(0))
                       /\ payload.dataBody.orderSn
                              \in Entries(IF OnCharge THEN charge_order_sns
                                          ELSE discharge_order_sns) ]_vars

\* the record of order B has been stored, indexed and then confirmed with
\* index 7
C36_Witness ==
    /\ frames[ClientThread].at = "refresh"
    /\ frames[ClientThread].payload.dataBody = [orderSn |-> "B", totalMoney |-> Number(7)]
    /\ published # <<>>
    /\ published[Len(published)].payload.header.index = 7
    /\ published[Len(published)].payload.dataBody.orderSn = Some("B")
    /\ "B" \in DOMAIN charge_records
    /\ event_logs[Len(event_logs)].data = [orderSn |-> "B", totalMoney |-> Number(7)]

\* the step delivers a response whose index is the index of a request that
\* has been published
AnswerStep ==
    /\ Ran("_on_message")
    /\ Classify(last_call'.msg.topic) = Some("RESPONSE")
    /\ Decodes(last_call'.msg.payload)
    /\ "index" \in DOMAIN last_call'.msg.payload.header
    /\ RequestsWithIndex(last_call'.msg.payload.header.index) # {}

\* C37: send_command records the pending entry of index i before it
\* publishes the request with index i: however the issuing thread and the
\* delivery thread interleave, a response with index i that arrives after the
\* publication finds the entry and completes it.
C37_AnswerFindsPendingEntry ==
    [][ AnswerStep =>
            LET i == last_call'.msg.payload.header.index
            IN  /\ i \in DOMAIN pending_commands
                /\ i \in DOMAIN pending_commands'
                /\ pending_commands'[i].status = "completed"
                /\ pending_commands'[i].response = Some(last_call'.msg.payload) ]_vars

\* the response to request 2 is delivered while the thread is in its next
\* call, between recording entry 3 and publishing request 3
C37_Witness ==
    /\ last_call.op = "_on_message"
    /\ last_call.msg.payload = Envelope([index |-> 2], [message |-> "ok"])
    /\ frames["t1"].at = "publish"
    /\ frames["t1"].msg_index = 3
    /\ pending_commands[2].status = "completed"
    /\ pending_commands[3].status = "pending"
    /\ Len(published) = 1

\* C38: the running total is per session: with two sessions in one process, a
\* record event processed by one session changes that session's total_money
\* alone (by the event's amount) and leaves the other session's total_money
\* as it was, however the record events of the two sessions interleave.
C38_TotalIsPerSession ==
    [][ /\ Ran("peer_process_record") =>
              /\ total_money' = total_money
              /\ IsNumber(DictGetOr(last_call'.payload.dataBody, "totalMoney", Number(0))) =>
                     LoadTotal(peer_total_money') =
                         LoadTotal(peer_total_money)
                             + DictGetOr(last_call'.payload.dataBody, "totalMoney", Number(0)).num
        /\ Ran("_on_message") => LoadTotal(peer_total_money') = LoadTotal(peer_total_money)
      ]_vars

\* the first session has counted 5, then the second session 7
C38_Witness ==
    /\ last_call.op = "peer_process_record"
    /\ total_money = 5
    /\ peer_total_money = Some(7)

\* C39: right after a heartbeat of the expected format is processed,
\* check_connection_status() is true and last-seen is not earlier than it was
\* before, whatever time the payload carries.
C39_HeartbeatMakesLive ==
    [][ ValidHeartbeatStep =>
            /\ check_connection_status'
            /\ last_heartbeat # None => Val(last_heartbeat') >= Val(last_heartbeat) ]_vars

\* what holds of C39: right after such a heartbeat the flag is true and
\* last-seen is the time the payload carries
C39_HeartbeatSetsPayloadTime ==
    [][ ValidHeartbeatStep =>
            /\ connected'
            /\ last_heartbeat' = strptime(last_call'.msg.payload)
            /\ last_heartbeat_str' = Some(last_call'.msg.payload) ]_vars
====
